---- MODULE Spec2Model ----
(***************************************************************************)
(* Model of the resilience and dispatch layer of the BitSacco WhatsApp bot *)
(*                                                                         *)
(*   src/src/circuit_breaker.rs   SimpleCircuitBreaker, ApiCircuitBreaker  *)
(*   src/src/webhook.rs           process_text_message and its helpers     *)
(*   src/src/services/bitsacco.rs read-through fetches of the backend      *)
(*   src/src/cache.rs             AppCache (time-to-live caches)           *)
(*   src/src/rate_limit.rs        RateLimiterService, UserRateLimiter      *)
(*   src/src/types.rs             BotCommand::parse                        *)
(*   src/src/webhook.rs           process_voice_message and its helpers    *)
(*                                                                         *)
(* Time is a discrete clock `now`; Instant::now() reads it.  An upstream   *)
(* call is split in two steps (invocation, completion) so that other tasks *)
(* interleave while it is pending, and a pending future can be dropped.    *)
(***************************************************************************)
EXTENDS Integers, FiniteSets, Sequences, TLC

(***************************************************************************)
(* Bounds of the model                                                     *)
(***************************************************************************)
\* largest failure_threshold a configuration is drawn with
MaxThreshold == 2
\* largest recovery_timeout (in clock ticks) a configuration is drawn with
MaxTimeout == 2
\* last instant of the clock
MaxTime == 3
\* cap of the failure counter (a failing call is not modelled beyond it)
MaxFailures == 3
\* number of concurrent callers of the breaker API
NumCallers == 2

\* number of message tasks spawned by the webhook that run concurrently
NumTasks == 1
\* number of sender identities (phone numbers)
NumPhones == 1
\* cap of the history counter of consecutive upstream failures
MaxObserved == 3

\* largest burst_size a RateLimitConfig is drawn with
MaxBurst == 2
\* largest replenish interval (clock ticks per request, 60 s / requests_per_minute)
MaxReplenish == 2
\* largest time-to-live (in clock ticks) a CacheConfig is drawn with
MaxTtl == 2

\* longest transcript (in words) speech_to_text is drawn with
MaxTranscript == 2

\* number of requests the MonitoringService is told about
MaxRecorded == 3

\* most messages in the payload of one webhook request
MaxBatch == 2

\* the burst_size handle_webhook gives the limiter it builds
WebhookBurst == 10

\* the largest number of words BotCommand::parse looks at (contribute chama)
MaxParts == 5

\* Option<Instant>::None
NoTime == -1

\* the three upstreams an ApiCircuitBreaker protects
Breakers == {"whatsapp", "bitsacco", "btc"}

Callers == 1..NumCallers

\* the tasks handle_webhook spawns, one per inbound message
Tasks == 1..NumTasks

\* the senders; a user's id stands in one-to-one relation with the phone
Phones == 1..NumPhones

\* the commands of BotCommand the model dispatches
Commands == {"Help", "Balance", "Savings", "Chama", "BtcPrice", "Deposit", "Unknown"}

\* shapes of a command's arguments: "ok" passes validate_amount and
\* validate_currency (KES for a deposit), "invalid" fails one of them,
\* "foreign" is a valid currency other than KES
Variants(cmd) ==
    IF cmd = "Deposit" THEN {"ok", "invalid", "foreign"} ELSE {"ok"}

\* the tokio Mutex of a breaker is held by nobody
Free == 0

\* a caller that is not inside a call has no breaker
NoTarget == "none"

\* the breaker the callers go through; the three are built alike
Exercised == {"whatsapp"}

VARIABLES
    now,                \* the monotonic clock read by Instant::now()
    failure_threshold,  \* CircuitBreakerConfig.failure_threshold
    recovery_timeout,   \* CircuitBreakerConfig.recovery_timeout
    state,              \* SimpleCircuitBreaker.state, per upstream
    failure_count,      \* SimpleCircuitBreaker.failure_count, per upstream
    last_failure_time,  \* SimpleCircuitBreaker.last_failure_time, per upstream
    lock,               \* holder of Arc<Mutex<SimpleCircuitBreaker>>, per upstream
    pc,                 \* position of each caller inside call_*_api
    target,             \* the breaker each caller's call goes through
    result,             \* what the caller's last call returned
    streak,             \* history: upstream failures since the last upstream success
    longRun,            \* history: some run of failures reached failure_threshold
    totalFail,          \* history: upstream failures in total (saturating)
    dpc,                \* position of each message task in process_text_message
    dcmd,               \* the command BotCommand::parse returned for its message
    dvariant,           \* the shape of the command's arguments
    dphone,             \* the sender of its message
    dstep,              \* the upstream operation it has reached
    dreply,             \* the reply it is sending or has sent
    doutcome,           \* how process_text_message returned
    user_cache,         \* AppCache.user_cache: the phones with a live entry
    btc_price_cache,    \* AppCache.btc_price_cache: "usd" has a live entry
    savings_cache,      \* AppCache.savings_cache: the users with a live entry
    btc_balance_cache,  \* AppCache.btc_balance_cache: the users with a live entry
    watched,            \* history: the upstream whose failures are counted
    obsFails,           \* history: consecutive failures the dispatcher saw of it
    hist,               \* history: the fetches and cache sets of task 1's command
    admitted,           \* history: requests handle_webhook let through at this instant
    burst_size,         \* RateLimitConfig.burst_size
    replenish,          \* clock ticks per request: 60 s / RateLimitConfig.requests_per_minute
    limiter,            \* RateLimiterService.limiter: its stored arrival time
    oks,                \* history: checks of that limiter that returned Ok
    firstCheck,         \* history: the instant of its first check
    lastReject,         \* history: the instant of its last RateLimit error
    okSince,            \* history: checks that returned Ok since that error
    rl_result,          \* what the last check returned
    limiters,           \* UserRateLimiter.limiters: identity -> stored arrival time
    rl_who,             \* the identity of the last check_user_rate_limit
    user_cache_ttl,     \* CacheConfig.user_cache_ttl
    btc_price_cache_ttl,\* CacheConfig.btc_price_cache_ttl
    savings_cache_ttl,  \* CacheConfig.savings_cache_ttl
    entries,            \* the four moka caches: kind -> key -> value and insertion instant
    used,               \* the cache slots the callers write to
    lastSet,            \* history: per slot, what the callers did to it last
    message,            \* the text handed to BotCommand::parse
    parsed,             \* what BotCommand::parse returned for it
    vpc,                \* where the handling of the voice or audio message stands
    vtext,              \* the words of the recording: what speech_to_text returns
    depth,              \* history: entries into process_text_message for it
    metrics,            \* MonitoringService.metrics: the three request counters
    metrics_lock,       \* the tasks inside a guard of that RwLock
    rpc,                \* position of each task inside record_*_request
    rkind,              \* which of the two it runs
    rtmp,               \* the value of total_requests it has loaded
    recorded,           \* history: calls of record_*_request that have returned
    seen,               \* the counters the last get_metrics returned
    rd_pc,              \* position of each task inside get_user_savings
    rd_val,             \* the savings its fetch returned
    rd_ret,             \* the savings get_user_savings returned to it
    fetched,            \* history: the savings the backend has returned
    wargs,              \* the amount, currency and recipient of the message's command
    hpc,                \* position of handle_webhook: idle, or in its loop
    hreq,               \* the request it was last called with
    hpos,               \* the message of the batch its loop is at
    hret,               \* what it last returned
    running             \* the spawned process_*_message tasks that have not ended

cbVars == <<now, failure_threshold, recovery_timeout, state, failure_count,
            last_failure_time, lock, pc, target, result, streak, longRun, totalFail>>

cacheVars == <<user_cache, btc_price_cache, savings_cache, btc_balance_cache>>

taskVars == <<dpc, dcmd, dvariant, dphone, dstep, dreply, doutcome>>

dispVars == <<taskVars, cacheVars, watched, obsFails>>

\* everything of the breakers and their callers but the clock
cbState == <<failure_threshold, recovery_timeout, state, failure_count,
             last_failure_time, lock, pc, target, result, streak, longRun, totalFail>>

histVars == <<hist, admitted>>

rateVars == <<burst_size, replenish, limiter, oks, firstCheck, lastReject, okSince,
              rl_result, limiters, rl_who>>

ttlVars == <<user_cache_ttl, btc_price_cache_ttl, savings_cache_ttl, entries, used,
             lastSet>>

inputVars == <<message, parsed>>

voiceVars == <<vpc, vtext, depth>>

metricVars == <<metrics, metrics_lock, rpc, rkind, rtmp, recorded, seen>>

\* the parts of the program that share no state with the dispatch path
readVars == <<rd_pc, rd_val, rd_ret, fetched>>

writeVars == <<wargs>>

hookVars == <<hpc, hreq, hpos, hret, running>>

sideVars == <<metricVars, readVars, writeVars, hookVars>>

\* the rate limiters, the caches, the parser, the voice path and those
\* parts seen on their own
extVars == <<rateVars, ttlVars, inputVars, voiceVars, sideVars>>

vars == <<cbVars, dispVars, histVars, extVars>>

(***************************************************************************)
(* SimpleCircuitBreaker                                                    *)
(***************************************************************************)

\* SimpleCircuitBreaker::new
NewBreaker ==
    [st |-> "Closed", count |-> 0, last |-> NoTime]

\* variant: the elapsed time is measured from the clock's origin
RecoveryElapsedFromOrigin(t, last, timeout) ==
    t >= timeout

\* Instant::now().duration_since(last_failure) >= self.recovery_timeout
RecoveryElapsed(t, last, timeout) ==
    t - last >= timeout

\* variant: the recovered breaker is let through without becoming HalfOpen
AdmissionNoHalfOpen(st, last, t, timeout) ==
    IF st = "Open"
    THEN IF last # NoTime /\ RecoveryElapsed(t, last, timeout) THEN "pass" ELSE "reject"
    ELSE "pass"

\* variant: a HalfOpen breaker lets nobody but its trial through
AdmissionOneTrial(st, last, t, timeout) ==
    IF st = "Open"
    THEN IF last # NoTime
         THEN IF RecoveryElapsed(t, last, timeout) THEN "trial" ELSE "reject"
         ELSE "reject"
    ELSE IF st = "HalfOpen" THEN "reject" ELSE "pass"

\* the admission decision of SimpleCircuitBreaker::call (the first match):
\* "reject" returns the circuit-open error, "trial" moves Open to HalfOpen
\* and goes on to the upstream call, "pass" goes on to the upstream call
Admission(st, last, t, timeout) ==
    IF st = "Open"
    THEN IF last # NoTime
         THEN IF RecoveryElapsed(t, last, timeout) THEN "trial" ELSE "reject"
         ELSE "reject"
    ELSE "pass"

\* variant: the threshold has to be exceeded
ThresholdExceeded(count, threshold) ==
    count > threshold

\* self.failure_count >= self.failure_threshold
ThresholdReached(count, threshold) ==
    count >= threshold

\* variant: a success closes the breaker but keeps the counter
OnSuccessKeepCount(st, count, last) ==
    [st |-> "Closed", count |-> count, last |-> NoTime]

\* the Ok arm of the second match of SimpleCircuitBreaker::call
OnSuccess(st, count, last) ==
    [st |-> "Closed", count |-> 0, last |-> NoTime]

\* variant: only the first failure of a run stamps the failure clock
OnFailureKeepClock(st, count, last, t, threshold) ==
    [st    |-> IF ThresholdReached(count + 1, threshold) THEN "Open" ELSE st,
     count |-> count + 1,
     last  |-> IF last = NoTime THEN t ELSE last]

\* variant: a failure is counted but the failure clock is not stamped
OnFailureUnstamped(st, count, last, t, threshold) ==
    [st    |-> IF ThresholdReached(count + 1, threshold) THEN "Open" ELSE st,
     count |-> count + 1,
     last  |-> last]

\* the Err arm of the second match of SimpleCircuitBreaker::call
OnFailure(st, count, last, t, threshold) ==
    [st    |-> IF ThresholdReached(count + 1, threshold) THEN "Open" ELSE st,
     count |-> count + 1,
     last  |-> t]

\* the errors the wrapped future resolves to: AppError::Timeout, and any
\* other variant of AppError
ErrorKinds == {"timeout", "err"}

\* variant: a timeout is not counted as a failure
ArmOfSparingTimeout(res) ==
    IF res = "ok" THEN "Ok" ELSE IF res = "timeout" THEN "none" ELSE "Err"

\* the arm of `match f().await` that runs for a result: Ok(value) or Err(e),
\* whatever e is
ArmOf(res) ==
    IF res = "ok" THEN "Ok" ELSE "Err"

\* variant: a failure is counted and stamped but never opens the breaker
CompletedCountOnly(st, count, last, t, threshold, res) ==
    CASE ArmOf(res) = "Ok"  -> OnSuccess(st, count, last)
      [] ArmOf(res) = "Err" -> [OnFailure(st, count, last, t, threshold) EXCEPT !.st = st]
      [] OTHER              -> [st |-> st, count |-> count, last |-> last]

\* the breaker after the second match of SimpleCircuitBreaker::call has run
\* for the result
Completed(st, count, last, t, threshold, res) ==
    CASE ArmOf(res) = "Ok"  -> OnSuccess(st, count, last)
      [] ArmOf(res) = "Err" -> OnFailure(st, count, last, t, threshold)
      [] OTHER              -> [st |-> st, count |-> count, last |-> last]

\* variant: every call goes through the breaker of the messaging API
BreakerForShared(api) == "whatsapp"

\* the breaker call_whatsapp_api / call_bitsacco_api / call_btc_api locks
BreakerFor(api) == api

(***************************************************************************)
(* RateLimiterService: a direct governor RateLimiter built from            *)
(* Quota::per_minute(requests_per_minute).allow_burst(burst_size).  The    *)
(* limiter keeps one instant, the theoretical arrival time of the next     *)
(* request (None before the first check); replenish is the time one       *)
(* request takes to be given back, 60 s / requests_per_minute.             *)
(***************************************************************************)

\* the identities a UserRateLimiter is asked about
Identities == {"u1", "u2"}

\* RateLimiterService::new: the limiter has seen no request
NewLimiter == NoTime

\* variant: the burst tolerance is one request short
BurstToleranceShort(t, burst) ==
    t * (burst - 1)

\* the tolerance of the quota: burst_size requests may arrive at once
BurstTolerance(t, burst) ==
    t * burst

\* variant: a rejected request is charged to the limiter as well
CheckChargingRejects(tat, t0, t, burst) ==
    LET cur == IF tat = NoTime THEN t0 + t ELSE tat
        nxt == (IF cur > t0 THEN cur ELSE t0) + t
    IN  [ok |-> ~(t0 < cur - BurstTolerance(t, burst)), tat |-> nxt]

\* self.limiter.check() at instant t0: the request conforms unless it comes
\* before the stored arrival time less the tolerance; a conforming request
\* moves the arrival time one replenish interval on, a rejected one leaves
\* the limiter as it is
Check(tat, t0, t, burst) ==
    LET cur == IF tat = NoTime THEN t0 + t ELSE tat
        nxt == (IF cur > t0 THEN cur ELSE t0) + t
    IN  IF t0 < cur - BurstTolerance(t, burst)
        THEN [ok |-> FALSE, tat |-> tat]
        ELSE [ok |-> TRUE, tat |-> nxt]

\* check_rate_limit maps the limiter's answer to Ok(()) or AppError::RateLimit
RateResult(ok) ==
    IF ok THEN "ok" ELSE "RateLimit"

\* the number of requests the limiter would let through at instant t0
RECURSIVE Available(_, _, _, _)
Available(tat, t0, t, burst) ==
    LET c == Check(tat, t0, t, burst)
    IN  IF c.ok THEN 1 + Available(c.tat, t0, t, burst) ELSE 0

\* variant: every identity shares one bucket
SharedBucket(id) ==
    "u1"

\* self.limiters.entry(user_id.to_string()): the bucket of an identity
BucketOf(id) ==
    id

(***************************************************************************)
(* AppCache: four moka caches built with time_to_live and max_capacity.    *)
(* A slot is a cache kind and a key; an entry keeps its value and the      *)
(* instant it was inserted at.                                             *)
(***************************************************************************)

\* user_cache, btc_price_cache, savings_cache, btc_balance_cache
CacheKinds == {"user", "btc_price", "savings", "btc_balance"}

\* the keys the callers use (a phone number, a currency, a user id)
CacheKeys == {"k1", "k2"}

\* the values the callers store
CacheValues == {"v1", "v2"}

Slots == CacheKinds \X CacheKeys

\* a slot without an entry
NoEntry == [val |-> "none", at |-> NoTime]

\* the kinds AppCache can invalidate by key
Invalidatable == {"user", "savings", "btc_balance"}

\* history of a slot no caller has written to (or that clear_all emptied)
NoSet == [val |-> "none", at |-> NoTime, first |-> NoTime, old |-> "none"]

\* history of a slot whose key was invalidated last
Gone == [val |-> "invalidated", at |-> NoTime, first |-> NoTime, old |-> "none"]

\* variant: every cache lives as long as the user cache
TtlOfUserOnly(kind) ==
    user_cache_ttl

\* the time_to_live AppCache::new gives each cache; btc_balance_cache is
\* built with savings_cache_ttl
TtlOf(kind) ==
    CASE kind = "user"        -> user_cache_ttl
      [] kind = "btc_price"   -> btc_price_cache_ttl
      [] kind = "savings"     -> savings_cache_ttl
      [] kind = "btc_balance" -> savings_cache_ttl

\* variant: an entry is still served at the instant its time_to_live ends
FreshInclusive(e, t, ttl) ==
    e # NoEntry /\ t - e.at <= ttl

\* an entry is served while less than time_to_live has passed since it was
\* inserted; moka checks this when the entry is read
Fresh(e, t, ttl) ==
    e # NoEntry /\ t - e.at < ttl

\* get_user / get_btc_price / get_savings / get_btc_balance at instant t
Get(kind, k, t) ==
    IF Fresh(entries[<<kind, k>>], t, TtlOf(kind))
    THEN entries[<<kind, k>>].val ELSE "none"

\* variant: an entry that is overwritten keeps its insertion instant
InsertedKeepAge(old, v, t) ==
    [val |-> v, at |-> IF old = NoEntry THEN t ELSE old.at]

\* cache.insert(key, value): the entry is replaced and its age starts anew
Inserted(old, v, t) ==
    [val |-> v, at |-> t]

\* variant: invalidate_all
InvalidatedAll(es, kind, k) ==
    [s \in Slots |-> IF s[1] = kind THEN NoEntry ELSE es[s]]

\* cache.invalidate(key) on the cache of one kind
Invalidated(es, kind, k) ==
    [s \in Slots |-> IF s = <<kind, k>> THEN NoEntry ELSE es[s]]

(***************************************************************************)
(* BotCommand::parse.  A text is its words, separated by single blanks,    *)
(* and whether blanks surround it; a word is its letters in lower case and *)
(* whether it was typed in upper case                                      *)
(***************************************************************************)

Tok(w, up) == [w |-> w, up |-> up]

\* the first words the texts are built from: the keywords and one other word
HeadWords ==
    {"help", "/help", "balance", "/balance", "savings", "/savings", "chama",
     "/chama", "btc", "bitcoin", "/btc", "deposit", "withdraw", "transfer",
     "create", "contribute", "shares", "hello"}

\* the first words that are followed by further words
LongHeads ==
    {"deposit", "withdraw", "transfer", "create", "contribute", "shares", "bitcoin"}

\* the further words: keywords, a number, a currency, another word
ArgWords == {"chama", "balance", "price", "100", "abc", "usd"}

\* the words that have no letters
Letterless == {"100"}

\* the further words that are also typed in upper case
UpperArgs == {"abc", "usd"}

ArgTokens ==
    {Tok(w, FALSE) : w \in ArgWords} \cup {Tok(w, TRUE) : w \in UpperArgs}

\* the sequences of at most n further words
RECURSIVE ArgSeqs(_)
ArgSeqs(n) ==
    IF n = 0 THEN {<< >>}
    ELSE LET shorter == ArgSeqs(n - 1)
         IN  shorter \cup {Append(a, t) : a \in shorter, t \in ArgTokens}

\* the number of words the arm of a first word asks for
Looks(h) ==
    CASE h = "contribute" -> 5
      [] h = "transfer"   -> 4
      [] h \in {"deposit", "withdraw", "create", "shares"} -> 3
      [] OTHER            -> 1

\* the number of further words a first word is followed by in a text of at
\* most n words: as many as its arm asks for, which is one more than it needs
Further(h, n) ==
    IF Looks(h) < n THEN Looks(h) ELSE n - 1

\* the empty text
NoMessage == [pad |-> FALSE, words |-> << >>]

\* the texts of at most n words parse is given: nothing, a single word, a
\* first word and its further words; each with and without blanks around it
Texts(n) ==
    {[pad |-> p, words |-> ws] :
        p \in BOOLEAN,
        ws \in {<< >>}
              \cup {<<Tok(h, up)>> : h \in HeadWords, up \in BOOLEAN}
              \cup UNION {{<<Tok(h, up)>> \o a :
                               up \in BOOLEAN, a \in ArgSeqs(Further(h, n))} :
                           h \in LongHeads}}

\* str::to_lowercase and str::to_uppercase on a word
ToLowercase(tok) == [tok EXCEPT !.up = FALSE]

ToUppercase(tok) == IF tok.w \in Letterless THEN tok ELSE [tok EXCEPT !.up = TRUE]

\* str::trim
Trim(m) == [m EXCEPT !.pad = FALSE]

\* str::to_lowercase on a text
Lowercased(m) ==
    [m EXCEPT !.words = [i \in 1..Len(m.words) |-> ToLowercase(m.words[i])]]

\* str::split_whitespace
SplitWhitespace(m) == m.words

\* message == "word"
Is(m, word) == m = [pad |-> FALSE, words |-> <<Tok(word, FALSE)>>]

\* str::starts_with for a prefix of whole words, a blank behind them or not:
\* a trimmed text that starts with words and a blank has a further word
StartsWith(m, prefix, blank) ==
    /\ ~m.pad
    /\ Len(m.words) >= Len(prefix) + (IF blank THEN 1 ELSE 0)
    /\ \A i \in 1..Len(prefix) : m.words[i] = Tok(prefix[i], FALSE)

\* str::strip_prefix of a prefix the text starts with
StripPrefix(m, prefix) ==
    SubSeq(m.words, Len(prefix) + 1, Len(m.words))

\* str::parse::<f64> succeeds
ParsesAsF64(tok) == tok.w \in Letterless

\* a value of BotCommand: the variant and its fields, each one word (none
\* if the variant has no such field), the name of a chama, the text of Unknown
Command(cmd) ==
    [cmd |-> cmd, amount |-> << >>, currency |-> << >>, recipient |-> << >>,
     chama_id |-> << >>, name |-> << >>, text |-> NoMessage]

\* BotCommand::Unknown(message)
Unknown(m) == [Command("Unknown") EXCEPT !.text = m]

\* the thread panics
Panicked == Command("panic")

\* nothing has been parsed
NotParsed == Command("none")

\* the variants of BotCommand
BotCommands ==
    {"Help", "Balance", "Savings", "Chama", "BtcPrice", "Deposit", "Withdraw",
     "Transfer", "CreateChama", "ContributeChama", "SharesBalance", "VoiceCommand",
     "Unknown"}

\* variant: one part fewer is asked for
HasPartsOffByOne(parts, n) == Len(parts) >= n - 1

\* parts.len() >= n
HasParts(parts, n) == Len(parts) >= n

\* the value of an expression that indexes parts up to i: an index out of
\* bounds panics
Indexing(parts, i, r) == IF i <= Len(parts) THEN r ELSE Panicked

\* BotCommand::parse
Parse(msg) ==
    LET m     == Lowercased(Trim(msg))
        parts == SplitWhitespace(m)
        \* the deposit and withdraw arms
        Moving(cmd) ==
            IF HasParts(parts, 3)
            THEN Indexing(parts, 3,
                     IF ParsesAsF64(parts[2])
                     THEN [Command(cmd) EXCEPT !.amount = <<parts[2]>>,
                                               !.currency = <<ToUppercase(parts[3])>>]
                     ELSE Unknown(m))
            ELSE Unknown(m)
    IN  IF Is(m, "help") \/ Is(m, "/help") THEN Command("Help")
        ELSE IF Is(m, "balance") \/ Is(m, "/balance") THEN Command("Balance")
        ELSE IF Is(m, "savings") \/ Is(m, "/savings") THEN Command("Savings")
        ELSE IF Is(m, "chama") \/ Is(m, "/chama") THEN Command("Chama")
        ELSE IF Is(m, "btc") \/ Is(m, "bitcoin") \/ Is(m, "/btc") THEN Command("BtcPrice")
        ELSE IF StartsWith(m, <<"deposit">>, TRUE) THEN Moving("Deposit")
        ELSE IF StartsWith(m, <<"withdraw">>, TRUE) THEN Moving("Withdraw")
        ELSE IF StartsWith(m, <<"transfer">>, TRUE)
        THEN IF HasParts(parts, 4)
             THEN Indexing(parts, 4,
                      IF ParsesAsF64(parts[2])
                      THEN [Command("Transfer") EXCEPT
                                !.amount = <<parts[2]>>,
                                !.currency = <<ToUppercase(parts[3])>>,
                                !.recipient = <<parts[4]>>]
                      ELSE Unknown(m))
             ELSE Unknown(m)
        ELSE IF StartsWith(m, <<"create", "chama">>, TRUE)
        THEN IF StripPrefix(m, <<"create", "chama">>) # << >>
             THEN [Command("CreateChama") EXCEPT
                       !.name = StripPrefix(m, <<"create", "chama">>)]
             ELSE Unknown(m)
        ELSE IF StartsWith(m, <<"contribute", "chama">>, TRUE)
        THEN IF HasParts(parts, 5)
             THEN Indexing(parts, 5,
                      IF ParsesAsF64(parts[4])
                      THEN [Command("ContributeChama") EXCEPT
                                !.chama_id = <<parts[3]>>,
                                !.amount = <<parts[4]>>,
                                !.currency = <<ToUppercase(parts[5])>>]
                      ELSE Unknown(m))
             ELSE Unknown(m)
        ELSE IF StartsWith(m, <<"shares", "balance">>, FALSE)
        THEN IF HasParts(parts, 3)
             THEN Indexing(parts, 3,
                      [Command("SharesBalance") EXCEPT !.chama_id = <<parts[3]>>])
             ELSE Command("SharesBalance")
        ELSE Unknown(m)

(***************************************************************************)
(* validation.rs: the checks process_text_message runs on the arguments of *)
(* a command before it calls the command's helper.  An amount is an f64:   *)
(* NaN, or a sign, a whole part and three decimals (the amounts of the     *)
(* model are exact in binary); a currency is a word; a phone number is     *)
(* what is left of it once everything but digits and + is removed: whether *)
(* it begins with +, its first digit and the number of its digits.         *)
(***************************************************************************)

\* the largest amount validate_amount accepts
AmountLimit == 1000000

Amount(neg, whole, frac) ==
    [nan |-> FALSE, neg |-> neg, whole |-> whole, frac |-> frac]

NaN == [nan |-> TRUE, neg |-> FALSE, whole |-> 0, frac |-> 0]

\* NaN, 0, -5, 100, 100.5, 1.005, 1000000 and 1000000.01
Amounts ==
    {NaN, Amount(FALSE, 0, 0), Amount(TRUE, 5, 0), Amount(FALSE, 100, 0),
     Amount(FALSE, 100, 500), Amount(FALSE, 1, 5), Amount(FALSE, AmountLimit, 0),
     Amount(FALSE, AmountLimit, 10)}

\* KES, USD, kes and US
Currencies ==
    {Tok("kes", TRUE), Tok("usd", TRUE), Tok("kes", FALSE), Tok("us", TRUE)}

PhoneNumber(plus, lead, digits) ==
    [plus |-> plus, lead |-> lead, digits |-> digits]

\* +2 and 11 more digits, 0 and 9 more without +, +2 and 8 more
Recipients ==
    {PhoneNumber(TRUE, 2, 12), PhoneNumber(FALSE, 0, 10), PhoneNumber(TRUE, 2, 9)}

\* the arguments of a command whose variant has none
NoArgs ==
    [amount |-> NaN, currency |-> Tok("none", FALSE),
     recipient |-> PhoneNumber(FALSE, 0, 0)]

\* the arguments BotCommand::parse may hand to the command's branch
Arguments ==
    [amount : Amounts, currency : Currencies, recipient : Recipients]

\* the words of three letters
ThreeLetterWords == {"kes", "usd", "abc"}

\* amount <= 0.0, which is false of NaN
NotPositive(a) ==
    ~a.nan /\ (a.neg \/ (a.whole = 0 /\ a.frac = 0))

\* amount > 1_000_000.0, which is false of NaN
OverLimit(a) ==
    ~a.nan /\ ~a.neg /\ (a.whole > AmountLimit \/ (a.whole = AmountLimit /\ a.frac > 0))

\* (amount * 100.0).fract() != 0.0, which is true of NaN
MoreThanTwoDecimals(a) ==
    a.nan \/ a.frac % 10 # 0

\* validate_amount returns Ok
ValidateAmount(a) ==
    ~NotPositive(a) /\ ~OverLimit(a) /\ ~MoreThanTwoDecimals(a)

\* validate_currency returns Ok: the word matches ^[A-Z]{3}$
ValidateCurrency(c) ==
    c.up /\ c.w \in ThreeLetterWords

\* validate_phone_number returns Ok: the cleaned number matches
\* ^\+[1-9]\d{9,14}$
ValidatePhoneNumber(p) ==
    p.plus /\ p.lead \in 1..9 /\ p.digits \in 10..15

\* variant: the recipient of a transfer is not validated
ShapeAnyRecipient(cmd, a) ==
    IF ~ValidateAmount(a.amount) \/ ~ValidateCurrency(a.currency) THEN "invalid"
    ELSE IF cmd = "Deposit" /\ ToUppercase(a.currency) # Tok("kes", TRUE) THEN "foreign"
    ELSE "ok"

\* what the branch of a command does with its arguments before it calls
\* the helper: "invalid" if validate_amount, validate_currency or, for a
\* transfer, validate_phone_number returns the error (`?`), "foreign" for a
\* deposit in another currency than KES, "ok" otherwise
Shape(cmd, a) ==
    IF ~ValidateAmount(a.amount) \/ ~ValidateCurrency(a.currency) THEN "invalid"
    ELSE IF cmd = "Transfer" /\ ~ValidatePhoneNumber(a.recipient) THEN "invalid"
    ELSE IF cmd = "Deposit" /\ ToUppercase(a.currency) # Tok("kes", TRUE) THEN "foreign"
    ELSE "ok"

(***************************************************************************)
(* Initial state: ApiCircuitBreaker::new builds three breakers from one    *)
(* configuration                                                           *)
(***************************************************************************)
InitBreakersWith(thresholds, timeouts) ==
    /\ now = 0
    /\ failure_threshold \in thresholds
    /\ recovery_timeout \in timeouts
    /\ state = [b \in Breakers |-> NewBreaker.st]
    /\ failure_count = [b \in Breakers |-> NewBreaker.count]
    /\ last_failure_time = [b \in Breakers |-> NewBreaker.last]
    /\ lock = [b \in Breakers |-> Free]
    /\ pc = [c \in Callers |-> "idle"]
    /\ target = [c \in Callers |-> NoTarget]
    /\ result = [c \in Callers |-> "none"]
    /\ streak = [b \in Breakers |-> 0]
    /\ longRun = [b \in Breakers |-> FALSE]
    /\ totalFail = [b \in Breakers |-> 0]

\* every configuration within the bounds
InitBreakers == InitBreakersWith(1..MaxThreshold, 1..MaxTimeout)

\* one configuration, for the paths that never reach a breaker
InitOneConfig == InitBreakersWith({MaxThreshold}, {MaxTimeout})

\* AppCache::new builds empty caches; no message task runs yet
InitTasks ==
    /\ dpc = [t \in Tasks |-> "idle"]
    /\ dcmd = [t \in Tasks |-> "none"]
    /\ dvariant = [t \in Tasks |-> "none"]
    /\ dphone = [t \in Tasks |-> 1]
    /\ dstep = [t \in Tasks |-> 0]
    /\ dreply = [t \in Tasks |-> "none"]
    /\ doutcome = [t \in Tasks |-> "none"]
    /\ user_cache = {}
    /\ btc_price_cache = FALSE
    /\ savings_cache = {}
    /\ btc_balance_cache = {}
    /\ obsFails = 0

\* no history of the dispatch path is kept
NoHist == [on |-> FALSE, case |-> "none", fetches |-> 0, sets |-> 0]

InitDispatch ==
    /\ InitTasks
    /\ watched = "none"
    /\ hist = NoHist
    /\ admitted = NoTime

\* RateLimiterService::new and UserRateLimiter::new
InitLimitersWith(bursts, intervals) ==
    /\ burst_size \in bursts
    /\ replenish \in intervals
    /\ limiter = NewLimiter
    /\ oks = 0
    /\ firstCheck = NoTime
    /\ lastReject = NoTime
    /\ okSince = 0
    /\ rl_result = "none"
    /\ limiters = [i \in {} |-> NoTime]
    /\ rl_who = "none"

\* AppCache::new: four empty caches
InitCachesWith(ttls, slots) ==
    /\ user_cache_ttl \in ttls
    /\ btc_price_cache_ttl \in ttls
    /\ savings_cache_ttl \in ttls
    /\ entries = [s \in Slots |-> NoEntry]
    /\ used \in slots
    /\ lastSet = [s \in Slots |-> NoSet]

\* MonitoringService::new: SystemMetrics with every counter 0
NewMetrics ==
    [total_requests |-> 0, successful_requests |-> 0, failed_requests |-> 0]

\* MonitoringService::new; no request has been recorded
InitMetrics ==
    /\ metrics = NewMetrics
    /\ metrics_lock = {}
    /\ rpc = [c \in Callers |-> "idle"]
    /\ rkind = [c \in Callers |-> "none"]
    /\ rtmp = [c \in Callers |-> 0]
    /\ recorded = 0
    /\ seen = NewMetrics

\* no task is inside get_user_savings
InitReaders ==
    /\ rd_pc = [c \in Callers |-> "idle"]
    /\ rd_val = [c \in Callers |-> "none"]
    /\ rd_ret = [c \in Callers |-> "none"]
    /\ fetched = {}

\* the parts seen on their own are as they are built; the command of the
\* messages has one of the arguments
\* the kinds of task handle_webhook spawns
TaskKinds == {"text", "voice", "audio"}

\* no request has reached handle_webhook
NoRequest == [hub |-> "unset", signature |-> "missing", webhook |-> FALSE, batch |-> << >>]

InitHook ==
    /\ hpc = "idle"
    /\ hreq = NoRequest
    /\ hpos = 0
    /\ hret = "none"
    /\ running = [k \in TaskKinds |-> 0]

InitSideWith(arguments) ==
    /\ InitMetrics
    /\ InitReaders
    /\ wargs \in arguments
    /\ InitHook

InitSide ==
    InitSideWith({NoArgs})

\* nothing has been handed to the parser and no voice message has arrived
InitNoText ==
    /\ message = NoMessage
    /\ parsed = NotParsed
    /\ vpc = "none"
    /\ vtext = NoMessage
    /\ depth = 0

InitNoInput ==
    /\ InitSide
    /\ InitNoText

\* one configuration of the limiters and of the caches, for the paths that
\* do not depend on it
InitOneExt ==
    /\ InitLimitersWith({MaxBurst}, {MaxReplenish})
    /\ InitCachesWith({MaxTtl}, {{}})
    /\ InitNoInput

Init == InitBreakers /\ InitDispatch /\ InitOneExt

(***************************************************************************)
(* Actions of the breaker API                                              *)
(***************************************************************************)

\* time passes
Tick ==
    /\ now < MaxTime
    /\ now' = now + 1
    /\ UNCHANGED <<cbState, dispVars, histVars, extVars>>

\* a caller invokes call_whatsapp_api / call_bitsacco_api / call_btc_api and
\* is suspended in self.<b>_breaker.lock().await
BeginCall(c, b) ==
    /\ pc[c] \in {"idle", "done"}
    /\ pc' = [pc EXCEPT ![c] = "waiting"]
    /\ target' = [target EXCEPT ![c] = b]
    /\ result' = [result EXCEPT ![c] = "none"]
    /\ UNCHANGED <<now, failure_threshold, recovery_timeout, state, failure_count,
                   last_failure_time, lock, streak, longRun, totalFail, dispVars, histVars, extVars>>

\* the caller obtains the mutex and runs SimpleCircuitBreaker::call up to the
\* suspension in f().await, or up to the early return of the circuit-open
\* error (which drops the guard)
EnterCall(c) ==
    LET b == BreakerFor(target[c])
        d == Admission(state[b], last_failure_time[b], now, recovery_timeout)
    IN  /\ pc[c] = "waiting"
        /\ lock[b] = Free
        /\ IF d = "reject"
           THEN /\ pc' = [pc EXCEPT ![c] = "done"]
                /\ result' = [result EXCEPT ![c] = "open"]
                /\ UNCHANGED <<state, lock>>
           ELSE /\ pc' = [pc EXCEPT ![c] = "inflight"]
                /\ lock' = [lock EXCEPT ![b] = c]
                /\ state' = [state EXCEPT ![b] = IF d = "trial" THEN "HalfOpen" ELSE @]
                /\ UNCHANGED result
        /\ UNCHANGED <<now, failure_threshold, recovery_timeout, failure_count,
                       last_failure_time, target, streak, longRun, totalFail, dispVars, histVars, extVars>>

\* the upstream future resolves to Ok: the Ok arm runs, the guard is dropped
CompleteOk(c) ==
    LET b == BreakerFor(target[c])
        n == OnSuccess(state[b], failure_count[b], last_failure_time[b])
    IN  /\ pc[c] = "inflight"
        /\ state' = [state EXCEPT ![b] = n.st]
        /\ failure_count' = [failure_count EXCEPT ![b] = n.count]
        /\ last_failure_time' = [last_failure_time EXCEPT ![b] = n.last]
        /\ lock' = [lock EXCEPT ![b] = Free]
        /\ pc' = [pc EXCEPT ![c] = "done"]
        /\ result' = [result EXCEPT ![c] = "ok"]
        /\ streak' = [streak EXCEPT ![b] = 0]
        /\ UNCHANGED <<now, failure_threshold, recovery_timeout, target,
                       longRun, totalFail, dispVars, histVars, extVars>>

\* the upstream future resolves to an Err of the kind: the arm of the
\* second match runs, the guard is dropped
CompleteErrAs(c, kind) ==
    LET b == BreakerFor(target[c])
        n == Completed(state[b], failure_count[b], last_failure_time[b], now,
                       failure_threshold, kind)
    IN  /\ pc[c] = "inflight"
        /\ failure_count[b] < MaxFailures
        /\ state' = [state EXCEPT ![b] = n.st]
        /\ failure_count' = [failure_count EXCEPT ![b] = n.count]
        /\ last_failure_time' = [last_failure_time EXCEPT ![b] = n.last]
        /\ lock' = [lock EXCEPT ![b] = Free]
        /\ pc' = [pc EXCEPT ![c] = "done"]
        /\ result' = [result EXCEPT ![c] = kind]
        /\ streak' = [streak EXCEPT ![b] = @ + 1]
        /\ longRun' = [longRun EXCEPT ![b] = @ \/ (streak[b] + 1 >= failure_threshold)]
        /\ totalFail' = [totalFail EXCEPT ![b] = IF @ < failure_threshold THEN @ + 1 ELSE @]
        /\ UNCHANGED <<now, failure_threshold, recovery_timeout, target, dispVars, histVars, extVars>>

\* the upstream future resolves to an Err that is no timeout
CompleteErr(c) ==
    CompleteErrAs(c, "err")

\* the caller's future is dropped while it is suspended: in lock().await
\* nothing is held; in f().await the MutexGuard is dropped with the future and
\* neither arm of the second match runs
Abandon(c) ==
    LET b == BreakerFor(target[c])
    IN  /\ pc[c] \in {"waiting", "inflight"}
        /\ lock' = [lock EXCEPT ![b] = IF @ = c THEN Free ELSE @]
        /\ pc' = [pc EXCEPT ![c] = "idle"]
        /\ target' = [target EXCEPT ![c] = NoTarget]
        /\ UNCHANGED <<now, failure_threshold, recovery_timeout, state, failure_count,
                       last_failure_time, result, streak, longRun, totalFail, dispVars, histVars, extVars>>

Next ==
    \/ Tick
    \/ \E c \in Callers, b \in Exercised : BeginCall(c, b)
    \/ \E c \in Callers : EnterCall(c)
    \/ \E c \in Callers : CompleteOk(c)
    \/ \E c \in Callers : CompleteErr(c)
    \/ \E c \in Callers : Abandon(c)

Spec == Init /\ [][Next]_vars

(***************************************************************************)
(* The dispatch path: process_text_message, its helpers in webhook.rs and  *)
(* the read-through fetches of BitSaccoService and BtcService.  A cache    *)
(* is modelled by the keys that have a live entry; the end of an entry's   *)
(* time_to_live is the action Expire.                                      *)
(***************************************************************************)

\* variant: get_user_balance does not fetch the bitcoin balance
OpsOfNoBtcBalance(cmd) ==
    <<"user">> \o
    CASE cmd = "Balance"  -> <<"user", "savings">>
      [] cmd = "Savings"  -> <<"user", "savings">>
      [] cmd = "Chama"    -> <<"user", "chamas">>
      [] cmd = "BtcPrice" -> <<"price">>
      [] cmd = "Deposit"  -> <<"user", "user_by_id", "stk_push", "transaction">>
      [] cmd = "Withdraw" -> <<"user", "withdrawal">>
      [] cmd = "Transfer" -> <<"user", "transfer">>
      [] cmd = "ContributeChama" -> <<"user", "contribution">>
      [] OTHER            -> << >>

\* variant: create_mpesa_deposit sends the STK push before it looks the
\* user up by id
OpsOfPushFirst(cmd) ==
    <<"user">> \o
    CASE cmd = "Balance"  -> <<"user", "savings", "btc_balance">>
      [] cmd = "Savings"  -> <<"user", "savings">>
      [] cmd = "Chama"    -> <<"user", "chamas">>
      [] cmd = "BtcPrice" -> <<"price">>
      [] cmd = "Deposit"  -> <<"user", "stk_push", "user_by_id", "transaction">>
      [] cmd = "Withdraw" -> <<"user", "withdrawal">>
      [] cmd = "Transfer" -> <<"user", "transfer">>
      [] cmd = "ContributeChama" -> <<"user", "contribution">>
      [] OTHER            -> << >>

\* the upstream operations a command runs, in order.  The first is the
\* lookup of validate_registered_user; the others are those of the command's
\* helper (get_user_balance, get_user_savings, get_user_chamas,
\* get_btc_price_usd, create_deposit followed by create_mpesa_deposit,
\* create_withdrawal, create_transfer, contribute_to_chama)
OpsOf(cmd) ==
    <<"user">> \o
    CASE cmd = "Balance"  -> <<"user", "savings", "btc_balance">>
      [] cmd = "Savings"  -> <<"user", "savings">>
      [] cmd = "Chama"    -> <<"user", "chamas">>
      [] cmd = "BtcPrice" -> <<"price">>
      [] cmd = "Deposit"  -> <<"user", "user_by_id", "stk_push", "transaction">>
      [] cmd = "Withdraw" -> <<"user", "withdrawal">>
      [] cmd = "Transfer" -> <<"user", "transfer">>
      [] cmd = "ContributeChama" -> <<"user", "contribution">>
      [] OTHER            -> << >>

\* the service an operation calls: BtcService::make_request for the price,
\* BitSaccoService::make_request / make_post_request for the others
UpstreamOf(op) ==
    IF op = "price" THEN "btc" ELSE "bitsacco"

\* the operations that read through a cache of AppCache
CachedOps == {"user", "savings", "btc_balance", "price"}

\* the live entries of the four caches for key k, by operation
Live(k) ==
    [op \in CachedOps |->
        CASE op = "user"        -> k \in user_cache
          [] op = "savings"     -> k \in savings_cache
          [] op = "btc_balance" -> k \in btc_balance_cache
          [] op = "price"       -> btc_price_cache]

\* where process_text_message goes once operation number step has its value:
\* after the registered-user lookup the command is matched (Help and Unknown
\* reply at once, a deposit validates its arguments first), after the last
\* operation of a helper the result is sent, otherwise the next operation runs
After(cmd, variant, step) ==
    IF step = 1 /\ cmd = "Help"
    THEN [pc |-> "sending", step |-> step, reply |-> "help", outcome |-> "none"]
    ELSE IF step = 1 /\ cmd = "Unknown"
    THEN [pc |-> "sending", step |-> step, reply |-> "unknown", outcome |-> "none"]
    ELSE IF step = 1 /\ variant = "invalid"
    THEN [pc |-> "idle", step |-> step, reply |-> "none", outcome |-> "error"]
    ELSE IF step = 1 /\ variant = "foreign"
    THEN [pc |-> "sending", step |-> step, reply |-> "error", outcome |-> "none"]
    ELSE IF step < Len(OpsOf(cmd))
    THEN [pc |-> "fetch", step |-> step + 1, reply |-> "none", outcome |-> "none"]
    ELSE [pc |-> "sending", step |-> step, reply |-> "result", outcome |-> "none"]

\* variant: the failed operation is sent again
AfterErrorRetry(step) ==
    [pc |-> "pending", step |-> step, reply |-> "none", outcome |-> "none"]

\* variant: the error of the registered-user lookup is sent as a reply too
AfterErrorReplies(step) ==
    [pc |-> "sending", step |-> step, reply |-> "error", outcome |-> "none"]

\* where process_text_message goes once operation number step has failed:
\* validate_registered_user returns the error to the spawned task, which
\* logs it; a helper's error is sent with send_error_message
AfterError(step) ==
    IF step = 1
    THEN [pc |-> "idle", step |-> step, reply |-> "none", outcome |-> "error"]
    ELSE [pc |-> "sending", step |-> step, reply |-> "error", outcome |-> "none"]

\* the task runs from operation number step up to its next suspension: an
\* operation whose cache has a live entry returns the cached value (get_user,
\* get_savings, get_btc_balance, get_btc_price) and the task goes on; any
\* other operation sends its request with make_request and waits
RECURSIVE RunFrom(_, _, _, _)
RunFrom(cmd, variant, step, live) ==
    LET op == OpsOf(cmd)[step]
        r  == After(cmd, variant, step)
    IN  IF op \in CachedOps /\ live[op]
        THEN IF r.pc = "fetch" THEN RunFrom(cmd, variant, r.step, live) ELSE r
        ELSE [pc |-> "pending", step |-> step, reply |-> "none", outcome |-> "none"]

\* the upstream whose answer task t is waiting for
PendingUpstream(t) ==
    IF dpc[t] = "sending" THEN "whatsapp" ELSE UpstreamOf(OpsOf(dcmd[t])[dstep[t]])

\* the task moves on as the record says; a task that has returned keeps
\* only its reply and its outcome
Goto(t, r) ==
    /\ dpc' = [dpc EXCEPT ![t] = r.pc]
    /\ dstep' = [dstep EXCEPT ![t] = IF r.pc = "idle" THEN 0 ELSE r.step]
    /\ dreply' = [dreply EXCEPT ![t] = r.reply]
    /\ doutcome' = [doutcome EXCEPT ![t] = r.outcome]
    /\ dcmd' = [dcmd EXCEPT ![t] = IF r.pc = "idle" THEN "none" ELSE @]
    /\ dvariant' = [dvariant EXCEPT ![t] = IF r.pc = "idle" THEN "none" ELSE @]
    /\ dphone' = [dphone EXCEPT ![t] = IF r.pc = "idle" THEN 1 ELSE @]

\* cache.set_user / set_savings / set_btc_balance / set_btc_price for key k
CacheSet(op, k) ==
    /\ user_cache' = IF op = "user" THEN user_cache \cup {k} ELSE user_cache
    /\ savings_cache' = IF op = "savings" THEN savings_cache \cup {k} ELSE savings_cache
    /\ btc_balance_cache' = IF op = "btc_balance" THEN btc_balance_cache \cup {k}
                            ELSE btc_balance_cache
    /\ btc_price_cache' = IF op = "price" THEN TRUE ELSE btc_price_cache

\* variant: the read-through stores an entry whatever the fetch returned
StoresAlways(op, ok) ==
    op \in CachedOps

\* the read-through of an operation stores the fetched value: the `?` on
\* the fetch returns before cache.set_* if the fetch failed
Stores(op, ok) ==
    op \in CachedOps /\ ok

\* the failure history after upstream u answered
Observed(u, ok) ==
    IF u # watched THEN obsFails
    ELSE IF ok THEN 0
    ELSE IF obsFails < MaxObserved THEN obsFails + 1 ELSE obsFails

\* the cache kinds get_user_balance reads through
BalanceReads == {"user", "savings", "btc_balance"}

\* the history of task 1 while it is between two commands
Counting == [on |-> TRUE, case |-> "none", fetches |-> 0, sets |-> 0]

\* what a Balance command finds in the caches when it arrives: nothing of
\* its identity ("cold"), all it reads ("warm"), or a part of it
CaseOf(cmd, live) ==
    IF cmd # "Balance" THEN "none"
    ELSE IF \A o \in BalanceReads : ~live[o] THEN "cold"
    ELSE IF \A o \in BalanceReads : live[o] THEN "warm"
    ELSE "other"

\* the history once task t has received a command
HistReceive(t, cmd, live, r) ==
    IF ~hist.on \/ t # 1 THEN hist
    ELSE IF r.pc = "idle" THEN Counting
    ELSE [Counting EXCEPT !.case = CaseOf(cmd, live)]

\* the history once task t's request for op has been answered: task 1's own
\* fetches and cache sets are counted; another task that stores an entry
\* of task 1's identity ends the undisturbed run
HistFetch(t, op, ok, r) ==
    IF ~hist.on \/ hist.case \notin {"cold", "warm"} THEN hist
    ELSE IF t = 1
    THEN IF r.pc = "idle" THEN Counting
         ELSE [hist EXCEPT !.fetches = @ + 1,
                           !.sets = IF ok /\ op \in CachedOps THEN @ + 1 ELSE @]
    ELSE IF ok /\ op \in BalanceReads /\ dphone[t] = dphone[1]
    THEN [Counting EXCEPT !.case = "other"]
    ELSE hist

\* the history once task t's reply has been handed to WhatsApp
HistSend(t) ==
    IF hist.on /\ t = 1 THEN Counting ELSE hist

\* the history once the entry of kind op for key k has expired
HistExpire(op, k) ==
    IF hist.on /\ hist.case \in {"cold", "warm"} /\ op \in BalanceReads /\ k = dphone[1]
    THEN [Counting EXCEPT !.case = "other"]
    ELSE hist

\* handle_webhook builds a RateLimiterService of its own for the request
\* and checks it; the request is rejected with RateLimit if the check fails
WebhookAdmits ==
    Check(NewLimiter, now, replenish, WebhookBurst).ok

\* the requests let through so far at this instant
Admit(n) ==
    IF n = NoTime THEN n ELSE IF n <= WebhookBurst THEN n + 1 ELSE n

\* handle_webhook checks the rate limit and spawns process_text_message for
\* a text message; the task runs up to its first suspension
Receive(t, ph, cmd, v) ==
    LET r == RunFrom(cmd, v, 1, Live(ph))
    IN  /\ dpc[t] = "idle"
        /\ IF WebhookAdmits
           THEN /\ dpc' = [dpc EXCEPT ![t] = r.pc]
                /\ dstep' = [dstep EXCEPT ![t] = IF r.pc = "idle" THEN 0 ELSE r.step]
                /\ dreply' = [dreply EXCEPT ![t] = r.reply]
                /\ doutcome' = [doutcome EXCEPT ![t] = r.outcome]
                /\ dcmd' = [dcmd EXCEPT ![t] = IF r.pc = "idle" THEN "none" ELSE cmd]
                /\ dvariant' = [dvariant EXCEPT ![t] = IF r.pc = "idle" THEN "none" ELSE v]
                /\ dphone' = [dphone EXCEPT ![t] = IF r.pc = "idle" THEN 1 ELSE ph]
                /\ hist' = HistReceive(t, cmd, Live(ph), r)
                /\ admitted' = Admit(admitted)
           ELSE /\ doutcome' = [doutcome EXCEPT ![t] = "RateLimit"]
                /\ dreply' = [dreply EXCEPT ![t] = "none"]
                /\ UNCHANGED <<dpc, dstep, dcmd, dvariant, dphone, hist, admitted>>
        /\ UNCHANGED <<now, cbState, extVars, cacheVars, watched, obsFails>>

\* the pending request succeeds: a read-through operation stores the value,
\* and the task runs up to its next suspension
FetchOk(t) ==
    LET op == OpsOf(dcmd[t])[dstep[t]]
        r  == After(dcmd[t], dvariant[t], dstep[t])
        live == [o \in CachedOps |-> Live(dphone[t])[o] \/ o = op]
    IN  /\ dpc[t] = "pending"
        /\ IF Stores(op, TRUE) THEN CacheSet(op, dphone[t]) ELSE UNCHANGED cacheVars
        /\ Goto(t, IF r.pc = "fetch"
                   THEN RunFrom(dcmd[t], dvariant[t], r.step, live) ELSE r)
        /\ obsFails' = Observed(UpstreamOf(op), TRUE)
        /\ hist' = HistFetch(t, op, TRUE,
                             IF r.pc = "fetch"
                             THEN RunFrom(dcmd[t], dvariant[t], r.step, live) ELSE r)
        /\ UNCHANGED <<now, cbState, extVars, watched, admitted>>

\* the pending request fails: nothing is stored
FetchErr(t) ==
    LET op == OpsOf(dcmd[t])[dstep[t]]
    IN  /\ dpc[t] = "pending"
        /\ Goto(t, AfterError(dstep[t]))
        /\ obsFails' = Observed(UpstreamOf(op), FALSE)
        /\ hist' = HistFetch(t, op, FALSE, AfterError(dstep[t]))
        /\ IF Stores(op, FALSE) THEN CacheSet(op, dphone[t]) ELSE UNCHANGED cacheVars
        /\ UNCHANGED <<now, cbState, extVars, watched, admitted>>

\* WhatsAppService::send_message succeeds: process_text_message returns Ok
SendOk(t) ==
    /\ dpc[t] = "sending"
    /\ Goto(t, [pc |-> "idle", step |-> 0, reply |-> dreply[t], outcome |-> "ok"])
    /\ obsFails' = Observed("whatsapp", TRUE)
    /\ hist' = HistSend(t)
    /\ UNCHANGED <<now, cbState, extVars, cacheVars, watched, admitted>>

\* WhatsAppService::send_message fails: the error is returned and logged
SendErr(t) ==
    /\ dpc[t] = "sending"
    /\ Goto(t, [pc |-> "idle", step |-> 0, reply |-> "none", outcome |-> "error"])
    /\ obsFails' = Observed("whatsapp", FALSE)
    /\ hist' = HistSend(t)
    /\ UNCHANGED <<now, cbState, extVars, cacheVars, watched, admitted>>

\* the time_to_live of an entry ends
Expire(op, k) ==
    /\ Live(k)[op]
    /\ user_cache' = IF op = "user" THEN user_cache \ {k} ELSE user_cache
    /\ savings_cache' = IF op = "savings" THEN savings_cache \ {k} ELSE savings_cache
    /\ btc_balance_cache' = IF op = "btc_balance" THEN btc_balance_cache \ {k}
                            ELSE btc_balance_cache
    /\ btc_price_cache' = IF op = "price" THEN FALSE ELSE btc_price_cache
    /\ hist' = HistExpire(op, k)
    /\ UNCHANGED <<now, cbState, extVars, taskVars, watched, obsFails, admitted>>

NextDispatch ==
    \/ \E t \in Tasks, ph \in Phones, cmd \in Commands :
          \E v \in Variants(cmd) : Receive(t, ph, cmd, v)
    \/ \E t \in Tasks : FetchOk(t)
    \/ \E t \in Tasks : FetchErr(t)
    \/ \E t \in Tasks : SendOk(t)
    \/ \E t \in Tasks : SendErr(t)
    \/ \E op \in CachedOps, k \in Phones : Expire(op, k)

\* the program as main builds it: no history is kept
InitProgram == InitOneConfig /\ InitDispatch /\ InitOneExt

SpecDispatch == InitProgram /\ [][NextDispatch]_vars

\* the same program, with the failures of one upstream counted
InitObserved ==
    /\ InitOneConfig
    /\ InitTasks
    /\ watched \in Breakers
    /\ hist = NoHist
    /\ admitted = NoTime
    /\ InitOneExt

SpecObserved == InitObserved /\ [][NextDispatch]_vars

\* the same program, with the fetches and cache sets of task 1 counted
InitCounted ==
    /\ InitOneConfig
    /\ InitTasks
    /\ watched = "none"
    /\ hist = Counting
    /\ admitted = NoTime
    /\ InitOneExt

\* the commands whose helpers read or write the identity's user, savings
\* and balance data, and one (Help) that runs the registration check only
IdentityCommands == {"Help", "Balance", "Savings", "Deposit"}

NextCounted ==
    \/ \E t \in Tasks, ph \in Phones, cmd \in IdentityCommands :
          \E v \in Variants(cmd) : Receive(t, ph, cmd, v)
    \/ \E t \in Tasks : FetchOk(t)
    \/ \E t \in Tasks : FetchErr(t)
    \/ \E t \in Tasks : SendOk(t)
    \/ \E t \in Tasks : SendErr(t)
    \/ \E op \in BalanceReads, k \in Phones : Expire(op, k)

SpecCounted == InitCounted /\ [][NextCounted]_vars

\* the same program, with the requests handle_webhook lets through counted
InitWebhook ==
    /\ InitOneConfig
    /\ InitTasks
    /\ watched = "none"
    /\ hist = NoHist
    /\ admitted = 0
    /\ InitOneExt

SpecWebhook == InitWebhook /\ [][NextDispatch]_vars

(***************************************************************************)
(* The rate limiters on their own: one RateLimiterService that is checked  *)
(* again and again, and one UserRateLimiter                                *)
(***************************************************************************)

\* RateLimiterService::check_rate_limit on the one limiter
CheckRateLimit ==
    LET c == Check(limiter, now, replenish, burst_size)
    IN  /\ limiter' = c.tat
        /\ rl_result' = RateResult(c.ok)
        /\ oks' = IF c.ok THEN oks + 1 ELSE oks
        /\ firstCheck' = IF firstCheck = NoTime THEN now ELSE firstCheck
        /\ lastReject' = IF c.ok THEN lastReject ELSE now
        /\ okSince' = IF c.ok /\ lastReject # NoTime THEN okSince + 1 ELSE 0
        /\ UNCHANGED <<burst_size, replenish, limiters, rl_who>>
        /\ UNCHANGED <<cbVars, dispVars, histVars, ttlVars, inputVars, voiceVars, sideVars>>

\* UserRateLimiter::check_user_rate_limit: the identity's limiter is taken
\* from the map, built first if the map has none, and checked
CheckUserRateLimit(id) ==
    LET b   == BucketOf(id)
        old == IF b \in DOMAIN limiters THEN limiters[b] ELSE NewLimiter
        c   == Check(old, now, replenish, burst_size)
    IN  /\ limiters' = [i \in DOMAIN limiters \cup {b} |->
                           IF i = b THEN c.tat ELSE limiters[i]]
        /\ rl_result' = RateResult(c.ok)
        /\ rl_who' = id
        /\ UNCHANGED <<burst_size, replenish, limiter, oks, firstCheck, lastReject,
                       okSince>>
        /\ UNCHANGED <<cbVars, dispVars, histVars, ttlVars, inputVars, voiceVars, sideVars>>

\* every RateLimitConfig within the bounds
InitRate ==
    /\ InitOneConfig
    /\ InitDispatch
    /\ InitLimitersWith(1..MaxBurst, 1..MaxReplenish)
    /\ InitCachesWith({MaxTtl}, {{}})
    /\ InitNoInput

NextRate ==
    \/ Tick
    \/ CheckRateLimit

SpecRate == InitRate /\ [][NextRate]_vars

NextUserRate ==
    \/ Tick
    \/ \E id \in Identities : CheckUserRateLimit(id)

SpecUserRate == InitRate /\ [][NextUserRate]_vars

(***************************************************************************)
(* AppCache on its own, with the clock: the callers set and invalidate     *)
(* the slots of `used`; reading is the operator Get                        *)
(***************************************************************************)

\* the history of a slot once value v has been set at instant t: the value
\* and the instant, and, kept for a cache written in one slot only, the
\* instant of the first set of an overwritten entry and the value replaced
SetHistory(h, v, t) ==
    IF Cardinality(used) = 1 /\ h.at # NoTime
    THEN [val |-> v, at |-> t, first |-> IF h.first = NoTime THEN h.at ELSE h.first,
          old |-> h.val]
    ELSE [val |-> v, at |-> t, first |-> NoTime, old |-> "none"]

\* set_user / set_btc_price / set_savings / set_btc_balance
SetEntry(kind, k, v) ==
    /\ <<kind, k>> \in used
    /\ entries' = [entries EXCEPT ![<<kind, k>>] = Inserted(@, v, now)]
    /\ lastSet' = [lastSet EXCEPT ![<<kind, k>>] = SetHistory(@, v, now)]
    /\ UNCHANGED <<user_cache_ttl, btc_price_cache_ttl, savings_cache_ttl, used>>
    /\ UNCHANGED <<cbVars, dispVars, histVars, rateVars, inputVars, voiceVars, sideVars>>

\* invalidate_user / invalidate_savings / invalidate_btc_balance
InvalidateEntry(kind, k) ==
    /\ <<kind, k>> \in used
    /\ kind \in Invalidatable
    /\ entries' = Invalidated(entries, kind, k)
    /\ lastSet' = [lastSet EXCEPT ![<<kind, k>>] = Gone]
    /\ UNCHANGED <<user_cache_ttl, btc_price_cache_ttl, savings_cache_ttl, used>>
    /\ UNCHANGED <<cbVars, dispVars, histVars, rateVars, inputVars, voiceVars, sideVars>>

\* clear_all: invalidate_all on the four caches
ClearAll ==
    /\ entries' = [s \in Slots |-> NoEntry]
    /\ lastSet' = [s \in Slots |-> NoSet]
    /\ UNCHANGED <<user_cache_ttl, btc_price_cache_ttl, savings_cache_ttl, used>>
    /\ UNCHANGED <<cbVars, dispVars, histVars, rateVars, inputVars, voiceVars, sideVars>>

NextCache ==
    \/ Tick
    \/ \E kind \in CacheKinds, k \in CacheKeys, v \in CacheValues : SetEntry(kind, k, v)
    \/ \E kind \in CacheKinds, k \in CacheKeys : InvalidateEntry(kind, k)
    \/ ClearAll

\* every CacheConfig within the bounds; the callers write to two slots
InitCache ==
    /\ InitOneConfig
    /\ InitDispatch
    /\ InitLimitersWith({MaxBurst}, {MaxReplenish})
    /\ InitCachesWith(1..MaxTtl, {S \in SUBSET Slots : Cardinality(S) = 2})
    /\ InitNoInput

SpecCache == InitCache /\ [][NextCache]_vars

\* every CacheConfig within the bounds; the callers write to one slot
InitOverwrite ==
    /\ InitOneConfig
    /\ InitDispatch
    /\ InitLimitersWith({MaxBurst}, {MaxReplenish})
    /\ InitCachesWith(1..MaxTtl, {S \in SUBSET Slots : Cardinality(S) = 1})
    /\ InitNoInput

SpecOverwrite == InitOverwrite /\ [][NextCache]_vars

(***************************************************************************)
(* Steps of a call, as seen from outside                                   *)
(***************************************************************************)

\* caller c's call reaches its admission decision in this step
Decides(c) ==
    pc[c] = "waiting" /\ pc'[c] \in {"inflight", "done"}

\* caller c's upstream invocation returns Err in this step
FailsNow(c) ==
    pc[c] = "inflight" /\ pc'[c] = "done" /\ result'[c] = "err"

\* caller c's upstream invocation returns Ok in this step
SucceedsNow(c) ==
    pc[c] = "inflight" /\ pc'[c] = "done" /\ result'[c] = "ok"

\* caller c's future is dropped in this step while its upstream is pending
DroppedNow(c) ==
    pc[c] = "inflight" /\ pc'[c] = "idle"

\* the callers whose upstream invocation through breaker b is pending
InFlight(b) ==
    {c \in Callers : pc[c] = "inflight" /\ target[c] = b}

\* breaker b is Open and its recovery_timeout has not elapsed
OpenAndCooling(b) ==
    /\ state[b] = "Open"
    /\ \/ last_failure_time[b] = NoTime
       \/ now - last_failure_time[b] < recovery_timeout

(***************************************************************************)
(* Circuit breaker properties                                              *)
(***************************************************************************)

\* C1: starting from Closed with counter 0, the failing call that makes the
\* run of consecutive failures reach failure_threshold leaves the breaker
\* Open, and every failing call before it leaves the breaker Closed.
C1_ThresholdOpens ==
    [][\A c \in Callers :
        (FailsNow(c) /\ state[target[c]] = "Closed")
        => /\ streak'[target[c]] = streak[target[c]] + 1
           /\ streak'[target[c]] <= failure_threshold
           /\ state'[target[c]] = IF streak'[target[c]] = failure_threshold
                                   THEN "Open" ELSE "Closed"]_vars

\* a breaker opened by exactly failure_threshold (>= 2) consecutive failures
C1_Witness ==
    \E c \in Callers :
        /\ pc[c] = "done" /\ result[c] = "err"
        /\ state[target[c]] = "Open"
        /\ failure_threshold >= 2
        /\ streak[target[c]] = failure_threshold

\* C2: a call that reaches an Open breaker before recovery_timeout has
\* elapsed since the last failure returns the circuit-open error without the
\* upstream being invoked, and state, counter and failure time stay as they are.
C2_OpenRejects ==
    [][\A c \in Callers :
        (Decides(c) /\ OpenAndCooling(target[c]))
        => /\ pc'[c] = "done"
           /\ result'[c] = "open"
           /\ state'[target[c]] = state[target[c]]
           /\ failure_count'[target[c]] = failure_count[target[c]]
           /\ last_failure_time'[target[c]] = last_failure_time[target[c]]]_vars

\* a call was rejected and the breaker is still Open and cooling
C2_Witness ==
    \E c \in Callers :
        /\ pc[c] = "done" /\ result[c] = "open"
        /\ OpenAndCooling(target[c])
        /\ last_failure_time[target[c]] > 0

C4_TrialFailureReopens ==
    [][\A c \in Callers :
        /\ (FailsNow(c) /\ state[target[c]] = "HalfOpen")
           => (state'[target[c]] = "Open" /\ last_failure_time'[target[c]] = now)
        /\ (Decides(c) /\ state[target[c]] = "Open" /\ pc'[c] = "inflight")
           => (/\ last_failure_time[target[c]] # NoTime
               /\ now - last_failure_time[target[c]] >= recovery_timeout)]_vars

\* after a failed trial a call was rejected although the first failures are
\* at least recovery_timeout old
C4_Witness ==
    \E c \in Callers :
        /\ pc[c] = "done" /\ result[c] = "open"
        /\ state[target[c]] = "Open"
        /\ failure_count[target[c]] > failure_threshold
        /\ now >= recovery_timeout

\* C5: a success in Closed state resets the failure counter to 0, and a
\* breaker none of whose runs of consecutive failures reached
\* failure_threshold is Closed, however many failures it has seen.
C5_OnlyConsecutiveCount ==
    /\ [](\A b \in Breakers : ~longRun[b] => state[b] = "Closed")
    /\ [][\A c \in Callers :
            (SucceedsNow(c) /\ state[target[c]] = "Closed")
            => failure_count'[target[c]] = 0]_vars

\* failure_threshold failures in total, never failure_threshold in a row
C5_Witness ==
    \E b \in Breakers :
        /\ ~longRun[b]
        /\ totalFail[b] >= failure_threshold
        /\ failure_count[b] > 0
        /\ state[b] = "Closed"

\* C6: while a HalfOpen trial is in flight, no other call to the same breaker
\* waits for it: such a call is rejected like on an Open breaker.
C6_ConcurrentRejected ==
    \A c1, c2 \in Callers :
        (/\ pc[c1] = "inflight"
         /\ state[target[c1]] = "HalfOpen"
         /\ target[c2] = target[c1])
        => pc[c2] # "waiting"

\* C7: in Closed state the breaker's lock is not held while the upstream
\* call is pending.
C7_NoLockAcrossUpstream ==
    \A c \in Callers :
        (pc[c] = "inflight" /\ state[target[c]] = "Closed")
        => lock[target[c]] # c

\* C8: dropping a call whose upstream is pending changes neither the failure
\* counter nor last_failure_time, and the breaker is never HalfOpen without
\* a trial in flight.
C8_AbandonIsNeutral ==
    /\ [][\A c \in Callers :
            DroppedNow(c)
            => /\ failure_count' = failure_count
               /\ last_failure_time' = last_failure_time]_vars
    /\ [](\A b \in Breakers : state[b] = "HalfOpen" => InFlight(b) # {})
(***************************************************************************)
(* Dispatch path and circuit breaker                                       *)
(***************************************************************************)

\* task t sends a request to upstream u in this step
Invokes(t, u) ==
    /\ dpc'[t] \in {"pending", "sending"}
    /\ \/ dpc[t] # dpc'[t]
       \/ dstep[t] # dstep'[t]
    /\ u = IF dpc'[t] = "sending" THEN "whatsapp"
           ELSE UpstreamOf(OpsOf(dcmd'[t])[dstep'[t]])

\* C9: whenever a message task has a request to an upstream pending, the
\* request runs inside that upstream's breaker call, which holds the
\* breaker's lock.
C9_UpstreamViaBreaker ==
    \A t \in Tasks :
        dpc[t] \in {"pending", "sending"} => lock[PendingUpstream(t)] # Free

\* C10: once the dispatcher has seen three consecutive failures of an
\* upstream, that upstream's breaker is Open and no message task sends a
\* further request to it.
C10_ThreeFailuresOpen ==
    /\ [](obsFails >= 3 => state[watched] = "Open")
    /\ [][\A t \in Tasks : Invokes(t, watched) => obsFails < 3]_vars

(***************************************************************************)
(* Read-through caching on the dispatch path                               *)
(***************************************************************************)

\* task 1 is sending the result of a Balance command that ran undisturbed
BalanceDone(case) ==
    /\ hist.on /\ hist.case = case
    /\ dpc[1] = "sending" /\ dcmd[1] = "Balance" /\ dreply[1] = "result"

WriteSucceeds(t) ==
    /\ dcmd[t] = "Deposit" /\ dpc[t] = "pending"
    /\ dpc'[t] = "sending" /\ dreply'[t] = "result"

\* C12: when a write command (here a deposit) succeeds for an identity, the
\* identity's savings and balance cache entries are invalidated, so that the
\* next read command fetches from upstream.
C12_WriteInvalidates ==
    [][\A t \in Tasks :
        WriteSucceeds(t)
        => /\ dphone[t] \notin savings_cache'
           /\ dphone[t] \notin btc_balance_cache']_vars

(***************************************************************************)
(* Admission control at the webhook                                        *)
(***************************************************************************)

\* C13: with no refill time elapsed, handle_webhook lets through at most
\* burst-size requests; the next one is rejected with the rate-limit error.
C13_BurstEnforced ==
    admitted # NoTime => admitted <= WebhookBurst

(***************************************************************************)
(* Rate limiter properties                                                 *)
(***************************************************************************)

\* C14: while less than one replenish interval has passed since the first
\* check of a RateLimiterService, a check succeeds exactly when fewer than
\* burst_size checks have succeeded before it (the first burst_size succeed,
\* the next fails with RateLimit); one replenish interval after a check
\* failed, exactly one call succeeds: a check succeeds then exactly when
\* none has succeeded since the failure.
C14_BurstThenRefill ==
    [][/\ (firstCheck = NoTime \/ now - firstCheck < replenish)
          => (rl_result' = "ok" <=> oks < burst_size)
       /\ rl_result' \in {"ok", "RateLimit"}
       /\ (lastReject # NoTime /\ now - lastReject = replenish)
          => (rl_result' = "ok" <=> okSince = 0)
      ]_<<limiter, oks, firstCheck, lastReject, okSince, rl_result>>

\* burst_size (>= 2) checks succeeded, the next failed, and one replenish
\* interval later one more has succeeded
C14_Witness ==
    /\ burst_size >= 2
    /\ oks = burst_size + 1
    /\ lastReject = firstCheck
    /\ now = lastReject + replenish
    /\ okSince = 1
    /\ rl_result = "ok"

\* C15: a check for an identity the UserRateLimiter has not seen creates
\* its bucket with the whole burst (the check succeeds and burst_size - 1
\* requests remain); a check for one identity leaves the bucket of every
\* other identity as it is, and fails only if the identity's own bucket is
\* used up.
C15_BucketsIndependent ==
    [][\A id \in Identities :
        rl_who' = id
        => /\ \A j \in Identities \ {id} :
                /\ j \in DOMAIN limiters' <=> j \in DOMAIN limiters
                /\ j \in DOMAIN limiters => limiters'[j] = limiters[j]
           /\ id \notin DOMAIN limiters
              => /\ id \in DOMAIN limiters'
                 /\ rl_result' = "ok"
                 /\ Available(limiters'[id], now, replenish, burst_size)
                        = burst_size - 1
           /\ rl_result' = "RateLimit"
              => /\ id \in DOMAIN limiters
                 /\ Available(limiters[id], now, replenish, burst_size) = 0
      ]_<<limiters, rl_result, rl_who>>

\* one identity's bucket is used up and the other identity's first check
\* has just succeeded
C15_Witness ==
    /\ rl_who = "u2" /\ rl_result = "ok"
    /\ DOMAIN limiters = Identities
    /\ Available(limiters["u1"], now, replenish, burst_size) = 0
    /\ Available(limiters["u2"], now, replenish, burst_size) = burst_size - 1

(***************************************************************************)
(* Cache properties                                                        *)
(***************************************************************************)

\* the time-to-live the configuration names for a cache kind; the bitcoin
\* balance has none of its own and goes with the savings
KindTtl(kind) ==
    CASE kind = "user"      -> user_cache_ttl
      [] kind = "btc_price" -> btc_price_cache_ttl
      [] OTHER              -> savings_cache_ttl

C17_InvalidateOnlyKey ==
    [][\A s \in Slots :
        (lastSet'[s] = Gone /\ lastSet[s] # Gone)
        => /\ Get(s[1], s[2], now)' = "none"
           /\ \A o \in Slots \ {s} :
                /\ entries'[o] = entries[o]
                /\ Get(o[1], o[2], now)' = Get(o[1], o[2], now)]_vars

\* a key has been invalidated and is absent while another key of the same
\* kind is still served
C17_Witness ==
    \E kind \in CacheKinds, k1, k2 \in CacheKeys :
        /\ lastSet[<<kind, k1>>] = Gone
        /\ Get(kind, k1, now) = "none"
        /\ Get(kind, k2, now) \in CacheValues

\* the first instant from t on at which get(k) returns absent
RECURSIVE ExpiryFrom(_, _, _)
ExpiryFrom(kind, k, t) ==
    IF Get(kind, k, t) = "none" THEN t ELSE ExpiryFrom(kind, k, t + 1)

\* C18: set(k,v2) on a key that already holds a value replaces the value
\* and restarts the entry's age: get(k) returns v2, and the entry expires
\* one TTL after this set, whenever the first set happened.
C18_SetRestartsAge ==
    [][\A kind \in CacheKinds, k \in CacheKeys :
        LET h == lastSet[<<kind, k>>]
            n == lastSet'[<<kind, k>>]
        IN  (h.at # NoTime /\ n.at # NoTime /\ n # h)
            => /\ Get(kind, k, now)' = n.val
               /\ ExpiryFrom(kind, k, now)' = now + KindTtl(kind)]_vars

\* a value set over another one is served although the TTL of the first
\* set has elapsed
C18_Witness ==
    \E kind \in CacheKinds, k \in CacheKeys :
        LET h == lastSet[<<kind, k>>]
        IN  /\ h.first # NoTime /\ h.old # h.val
            /\ now - h.first >= KindTtl(kind)
            /\ Get(kind, k, now) = h.val

(***************************************************************************)
(* Errors on the dispatch path                                             *)
(***************************************************************************)

\* process_text_message returns an error for task t in this step
EndsInError(t) ==
    /\ dpc'[t] = "idle" /\ doutcome'[t] = "error"
    /\ <<dpc[t], doutcome[t], dreply[t]>> # <<dpc'[t], doutcome'[t], dreply'[t]>>

\* C20: every error raised while a command is handled is turned into a
\* reply: the handling ends with an error only when the sending of a reply
\* itself has failed, never with a log entry alone.
C20_ErrorsAreReplied ==
    [][\A t \in Tasks : EndsInError(t) => dpc[t] = "sending"]_vars

(***************************************************************************)
(* Failures of the upstream calls                                          *)
(***************************************************************************)

\* two commands that read through the caches, one of the backend and one of
\* the price service
ReadCommands == {"Savings", "BtcPrice"}

\* the program handling these commands, with the failures of one upstream
\* counted
NextReads ==
    \/ \E t \in Tasks, ph \in Phones, cmd \in ReadCommands :
          \E v \in Variants(cmd) : Receive(t, ph, cmd, v)
    \/ \E t \in Tasks : FetchOk(t)
    \/ \E t \in Tasks : FetchErr(t)
    \/ \E t \in Tasks : SendOk(t)
    \/ \E t \in Tasks : SendErr(t)
    \/ \E op \in CachedOps \ {"btc_balance"}, k \in Phones : Expire(op, k)

SpecReads == InitObserved /\ [][NextReads]_vars

\* task t, which was waiting for the watched upstream, leaves its request in
\* this step with the error: the error is returned to the spawned task or
\* sent with send_error_message, and no request is pending for the task
ReportsFailure(t) ==
    /\ dpc[t] \in {"pending", "sending"}
    /\ PendingUpstream(t) = watched
    /\ dpc'[t] \in {"idle", "sending"}
    /\ <<dpc[t], dstep[t], dreply[t]>> # <<dpc'[t], dstep'[t], dreply'[t]>>
    /\ doutcome'[t] = "error" \/ dreply'[t] = "error"

\* C21: the dispatcher never retries: whenever a request to an upstream
\* fails, the command that sent it stops waiting and reports the error (it
\* returns it or sends the error reply); the operation is not sent again.
C21_NoRetry ==
    [][obsFails' = obsFails + 1 => \E t \in Tasks : ReportsFailure(t)]_vars

\* a lookup of the backend has failed once and its error is being sent
C21_Witness ==
    /\ watched = "bitsacco"
    /\ obsFails = 1
    /\ \E t \in Tasks : dpc[t] = "sending" /\ dreply[t] = "error"

\* the three ways make_request and make_post_request fail: the request
\* could not be sent, the status is not a success, the body does not decode
RequestFailures == {"Request failed", "API error", "Failed to parse response"}

\* what only the upstream or the HTTP client knows of a failure: the status
\* code and the response body, or the client's error string
UpstreamDetail == "detail"

\* the AppError of a failed request to upstream u: its string is the way
\* the request failed followed by the detail
MakeRequestError(u, f) ==
    [variant |-> IF u = "btc" THEN "BtcService" ELSE "BitSacco",
     msg |-> <<f, UpstreamDetail>>]

\* AppError's Display: the variant's fixed words, then its string
Display(e) ==
    <<IF e.variant = "BtcService" THEN "BTC service error" ELSE "BitSacco API error">>
        \o e.msg

\* the text send_error_message sends for an error string
SendErrorMessage(error) ==
    <<"Error">> \o error \o <<"Please try again or contact support">>

\* the text holds the part
Contains(text, part) ==
    \E i \in 1..Len(text) : text[i] = part

\* the texts task t may be sending as the reply to a failed operation of
\* its helper: the arm passes e.to_string() to send_error_message
ErrorReplies(t) ==
    IF dpc[t] = "sending" /\ dreply[t] = "error" /\ dstep[t] > 1
    THEN {SendErrorMessage(Display(MakeRequestError(
              UpstreamOf(OpsOf(dcmd[t])[dstep[t]]), f))) : f \in RequestFailures}
    ELSE {}

\* C22: the reply sent to the user for a failure of an upstream never holds
\* the upstream's detail (status code, response body); the detail is only
\* logged.
C22_NoUpstreamDetail ==
    \A t \in Tasks : \A text \in ErrorReplies(t) : ~Contains(text, UpstreamDetail)

(***************************************************************************)
(* BotCommand::parse on its own: a text is handed to it once               *)
(***************************************************************************)

\* every text within the bounds
InitParse ==
    /\ InitOneConfig
    /\ InitDispatch
    /\ InitLimitersWith({MaxBurst}, {MaxReplenish})
    /\ InitCachesWith({MaxTtl}, {{}})
    /\ message \in Texts(MaxParts)
    /\ parsed = NotParsed
    /\ vpc = "none"
    /\ vtext = NoMessage
    /\ depth = 0
    /\ InitSide

\* BotCommand::parse(&message)
ParseMessage ==
    /\ parsed = NotParsed
    /\ parsed' = Parse(message)
    /\ UNCHANGED <<message, voiceVars>>
    /\ UNCHANGED <<cbVars, dispVars, histVars, rateVars, ttlVars, sideVars>>

NextParse ==
    ParseMessage

SpecParse == InitParse /\ [][NextParse]_vars

\* the variants that have each field
HasAmount == {"Deposit", "Withdraw", "Transfer", "ContributeChama"}

\* the value is one variant of BotCommand with the fields of that variant
WellFormed(r) ==
    /\ r.cmd \in BotCommands
    /\ Len(r.amount) = (IF r.cmd \in HasAmount THEN 1 ELSE 0)
    /\ Len(r.currency) = (IF r.cmd \in HasAmount THEN 1 ELSE 0)
    /\ Len(r.recipient) = (IF r.cmd = "Transfer" THEN 1 ELSE 0)
    /\ Len(r.chama_id) <= (IF r.cmd \in {"ContributeChama", "SharesBalance"} THEN 1 ELSE 0)
    /\ r.cmd = "ContributeChama" => Len(r.chama_id) = 1
    /\ (r.name # << >>) = (r.cmd = "CreateChama")
    /\ r.cmd # "Unknown" => r.text = NoMessage

\* C24: BotCommand::parse is total: for every text, the empty one and those
\* with missing or non-numeric words included, it returns exactly one
\* variant of BotCommand with that variant's fields, and it never panics.
C24_ParseTotal ==
    /\ Parse(message) # Panicked
    /\ WellFormed(Parse(message))
    /\ parsed # NotParsed => parsed = Parse(message)

\* a deposit with its currency missing has been parsed
C24_Witness ==
    /\ message.words = <<Tok("deposit", FALSE), Tok("100", FALSE)>>
    /\ parsed.cmd = "Unknown"

\* the words of the text as they were typed, and its first word in lower case
Typed == message.words

Keyword == IF Typed = << >> THEN "" ELSE Typed[1].w

\* C25: a well-formed command in any letter case gives its variant with the
\* fields taken by position from the words as typed: the amount, the
\* currency in upper case, the recipient of a transfer, the chama of a
\* contribution; a single keyword gives its variant without fields.
C25_FieldsPositional ==
    LET r == Parse(message)
    IN  /\ Len(Typed) = 3 /\ Keyword \in {"deposit", "withdraw"} /\ ParsesAsF64(Typed[2])
           => /\ r.cmd = (IF Keyword = "deposit" THEN "Deposit" ELSE "Withdraw")
              /\ r.amount = <<Typed[2]>>
              /\ r.currency = <<ToUppercase(Typed[3])>>
        /\ Len(Typed) = 4 /\ Keyword = "transfer" /\ ParsesAsF64(Typed[2])
           => /\ r.cmd = "Transfer"
              /\ r.amount = <<Typed[2]>>
              /\ r.currency = <<ToUppercase(Typed[3])>>
              /\ r.recipient = <<Typed[4]>>
        /\ /\ Len(Typed) = 5 /\ Keyword = "contribute" /\ Typed[2].w = "chama"
           /\ ParsesAsF64(Typed[4])
           => /\ r.cmd = "ContributeChama"
              /\ r.chama_id = <<Typed[3]>>
              /\ r.amount = <<Typed[4]>>
              /\ r.currency = <<ToUppercase(Typed[5])>>
        /\ Len(Typed) = 1
           => /\ Keyword \in {"help", "/help"} => r = Command("Help")
              /\ Keyword \in {"balance", "/balance"} => r = Command("Balance")
              /\ Keyword = "savings" => r = Command("Savings")
              /\ Keyword = "chama" => r = Command("Chama")
              /\ Keyword \in {"btc", "bitcoin"} => r = Command("BtcPrice")

\* C26: whenever parse returns Unknown (a command with too few words or an
\* amount that is no number, or a text that matches nothing), Unknown
\* carries the text as it was typed, its letter case not lowered.
C26_UnknownKeepsText ==
    Parse(message).cmd = "Unknown" => Parse(message).text = Trim(message)

\* C27: the spoken phrase `bitcoin price` is parsed as BtcPrice.
C27_BitcoinPriceParsed ==
    /\ Len(Typed) = 2 /\ Keyword = "bitcoin" /\ Typed[2].w = "price"
    => Parse(message).cmd = "BtcPrice"

(***************************************************************************)
(* Voice and audio messages: process_voice_message and                     *)
(* process_audio_message (the same code) download the recording, turn it   *)
(* into a transcript, parse the transcript and hand it to                  *)
(* process_text_message, which runs in the same task                       *)
(***************************************************************************)

\* the task that handles the voice message
VoiceTask == 1

\* the words validate_currency accepts once they are in upper case
ThreeLetters == {"abc", "usd"}

\* the shape of a parsed command's arguments for the dispatcher: no word of
\* the texts is KES
VariantOf(r) ==
    IF r.cmd # "Deposit" THEN "ok"
    ELSE IF r.currency[1].w \in ThreeLetters THEN "foreign"
    ELSE "invalid"

\* the transcripts speech_to_text returns: the texts of at most
\* MaxTranscript words whose command the dispatcher covers
Transcripts(n) ==
    {m \in Texts(n) : Parse(m).cmd \in Commands}

\* variant: once the text handling has returned, the transcript is
\* dispatched again
VoiceNextAgain(at, ok, cmd) ==
    IF ~ok THEN "done"
    ELSE CASE at = "download" -> "stt"
           [] at = "stt"      -> IF cmd = "VoiceCommand" THEN "ack" ELSE "text"
           [] at = "ack"      -> "text"
           [] at = "text"     -> "text"

\* where process_voice_message goes after a stage: an error is returned to
\* the spawned task (`?`), which logs it; after the download comes
\* speech_to_text, after it the transcript is parsed and handed to
\* process_voice_command (for VoiceCommand: an acknowledgement is sent first)
\* or straight to process_text_message; after that the handler returns.
\* Parse never gives VoiceCommand, so process_voice_command is never entered
VoiceNext(at, ok, cmd) ==
    IF ~ok THEN "done"
    ELSE CASE at = "download" -> "stt"
           [] at = "stt"      -> IF cmd = "VoiceCommand" THEN "ack" ELSE "text"
           [] at = "ack"      -> "text"
           [] at = "text"     -> "done"

\* the handler of sender ph's recording moves to position nx: on entering
\* process_text_message with the transcript the task runs up to its first
\* suspension
VoiceGoto(nx, ph) ==
    LET cmd == Parse(vtext).cmd
        v   == VariantOf(Parse(vtext))
        r   == RunFrom(cmd, v, 1, Live(ph))
        t   == VoiceTask
    IN  /\ vpc' = nx
        /\ IF nx = "text"
           THEN /\ dpc' = [dpc EXCEPT ![t] = r.pc]
                /\ dstep' = [dstep EXCEPT ![t] = IF r.pc = "idle" THEN 0 ELSE r.step]
                /\ dreply' = [dreply EXCEPT ![t] = r.reply]
                /\ doutcome' = [doutcome EXCEPT ![t] = r.outcome]
                /\ dcmd' = [dcmd EXCEPT ![t] = IF r.pc = "idle" THEN "none" ELSE cmd]
                /\ dvariant' = [dvariant EXCEPT ![t] = IF r.pc = "idle" THEN "none" ELSE v]
                /\ dphone' = [dphone EXCEPT ![t] = IF r.pc = "idle" THEN 1 ELSE ph]
                /\ depth' = depth + 1
           ELSE UNCHANGED <<taskVars, depth>>
        /\ UNCHANGED <<now, cbState, cacheVars, watched, obsFails, histVars, rateVars,
                       ttlVars, inputVars, vtext, sideVars>>

\* handle_webhook checks the rate limit and spawns process_voice_message
\* (process_audio_message), which asks for the recording
ReceiveVoice ==
    /\ vpc = "none"
    /\ dpc[VoiceTask] = "idle"
    /\ WebhookAdmits
    /\ VoiceGoto("download", 1)

\* download_voice_message (download_audio_message) returns the file
DownloadOk ==
    /\ vpc = "download"
    /\ VoiceGoto(VoiceNext("download", TRUE, "none"), 1)

\* the download fails
DownloadErr ==
    /\ vpc = "download"
    /\ VoiceGoto(VoiceNext("download", FALSE, "none"), 1)

\* speech_to_text returns the transcript of the recording sender ph made;
\* the transcript is parsed and matched
TranscribeOk(ph) ==
    /\ vpc = "stt"
    /\ VoiceGoto(VoiceNext("stt", TRUE, Parse(vtext).cmd), ph)

\* speech_to_text fails
TranscribeErr ==
    /\ vpc = "stt"
    /\ VoiceGoto(VoiceNext("stt", FALSE, "none"), 1)

\* process_text_message has returned to the voice handler, which removes
\* the file if the result is Ok and returns
TextReturns(ph) ==
    /\ vpc = "text"
    /\ dpc[VoiceTask] = "idle"
    /\ VoiceGoto(VoiceNext("text", doutcome[VoiceTask] # "error",
                           Parse(vtext).cmd), ph)

NextVoice ==
    \/ ReceiveVoice
    \/ DownloadOk
    \/ DownloadErr
    \/ \E ph \in Phones : TranscribeOk(ph)
    \/ TranscribeErr
    \/ \E ph \in Phones : TextReturns(ph)
    \/ \E t \in Tasks : FetchOk(t)
    \/ \E t \in Tasks : FetchErr(t)
    \/ \E t \in Tasks : SendOk(t)
    \/ \E t \in Tasks : SendErr(t)

\* a recording arrives whose words are any transcript within the bounds
InitVoice ==
    /\ InitOneConfig
    /\ InitDispatch
    /\ InitLimitersWith({MaxBurst}, {MaxReplenish})
    /\ InitCachesWith({MaxTtl}, {{}})
    /\ message = NoMessage
    /\ parsed = NotParsed
    /\ vpc = "none"
    /\ vtext \in Transcripts(MaxTranscript)
    /\ depth = 0
    /\ InitSide

\* every request is answered or times out, and the runtime runs the task
SpecVoice == InitVoice /\ [][NextVoice]_vars /\ WF_vars(NextVoice)

\* C23: the handling of a voice or audio message always terminates, and it
\* hands the transcript to the text handling at most once, whatever the
\* transcript is: nothing is dispatched a second time.
C23_VoiceOneLevel ==
    /\ [](depth <= 1)
    /\ [](vpc = "done" => dpc[VoiceTask] = "idle")
    /\ (vpc # "none") ~> (vpc = "done")

\* the transcript `bitcoin price` has been handled as a text and the
\* handler has returned
C23_Witness ==
    /\ vpc = "done"
    /\ depth = 1
    /\ vtext.words = <<Tok("bitcoin", FALSE), Tok("price", FALSE)>>

(***************************************************************************)
(* ApiCircuitBreaker with its three breakers in use, and the wrapped calls *)
(* failing with a timeout or with another error                            *)
(***************************************************************************)

\* the caller whose calls are followed: it calls the three APIs one after
\* the other, in any order, and waits for each call to end
OneCaller == 1

NextApi ==
    \/ Tick
    \/ \E b \in Breakers : BeginCall(OneCaller, b)
    \/ EnterCall(OneCaller)
    \/ CompleteOk(OneCaller)
    \/ \E kind \in ErrorKinds : CompleteErrAs(OneCaller, kind)

SpecApi == InitProgram /\ [][NextApi]_vars

\* the state, the failure counter and the failure clock of breaker b
BreakerOf(b) ==
    [st |-> state[b], count |-> failure_count[b], last |-> last_failure_time[b]]

\* C28: the transition of the breaker depends only on whether the wrapped
\* call returned Ok or Err: a call that ends with an error, a timeout or
\* any other, adds one to the failure counter, sets last_failure_time to the
\* instant, and opens the breaker if the threshold is reached.
C28_TimeoutIsAFailure ==
    [][\A c \in Callers :
          pc[c] = "inflight" /\ pc'[c] = "done" /\ result'[c] \in ErrorKinds
          => BreakerOf(target[c])' =
                OnFailure(state[target[c]], failure_count[target[c]],
                          last_failure_time[target[c]], now, failure_threshold)]_vars

\* a call has ended with a timeout and its breaker has counted it
C28_Witness ==
    \E c \in Callers :
        /\ pc[c] = "done" /\ result[c] = "timeout"
        /\ failure_count[target[c]] = 1
        /\ last_failure_time[target[c]] = now

\* the step is caller c's, on the breaker of the API it called
StepOn(c, b) ==
    target[c] = b /\ <<pc[c], result[c]>> # <<pc'[c], result'[c]>>

\* C29: the three breakers are independent: a step changes the state, the
\* failure counter and the failure clock only of the breaker of the API that
\* is being called, and a call is rejected only if the breaker of its own
\* API is Open: an Open breaker of another API never rejects it.
C29_BreakersIndependent ==
    [][/\ \A b \in Breakers :
            BreakerOf(b)' # BreakerOf(b) => \E c \in Callers : StepOn(c, b)
       /\ \A c \in Callers :
            Decides(c) /\ state[target[c]] # "Open" => pc'[c] = "inflight"]_vars

\* a call to the backend is running while the breaker of the messaging API
\* is Open
C29_Witness ==
    \E c \in Callers :
        /\ pc[c] = "inflight" /\ target[c] = "bitsacco"
        /\ state["whatsapp"] = "Open"
        /\ state["bitsacco"] = "Closed"

(***************************************************************************)
(* Read-through fetches that fail                                          *)
(***************************************************************************)

\* task t is waiting for the fetch of a read-through operation on key k
Fetching(t, op, k) ==
    dpc[t] = "pending" /\ OpsOf(dcmd[t])[dstep[t]] = op /\ dphone[t] = k

\* C30: a read that misses the cache and whose fetch fails leaves the four
\* caches as they are, so the key holds no entry of that read and the next
\* read fetches again; an entry appears only in the step in which a task's
\* fetch for that key succeeds.
C30_FailedFetchStoresNothing ==
    [][/\ obsFails' = obsFails + 1 => UNCHANGED cacheVars
       /\ \A op \in CachedOps, k \in Phones :
            ~Live(k)[op] /\ Live(k)[op]'
            => /\ \E t \in Tasks : Fetching(t, op, IF op = "price" THEN dphone[t] ELSE k)
               /\ obsFails' # obsFails + 1]_vars

\* the lookup of the user has failed and the user cache holds no entry
C30_Witness ==
    /\ watched = "bitsacco"
    /\ obsFails = 1
    /\ user_cache = {}
    /\ \E t \in Tasks : dpc[t] = "idle" /\ doutcome[t] = "error"

(***************************************************************************)
(* The breaker's state against its counter and its failure clock           *)
(***************************************************************************)

\* C34: in every reachable state of a breaker (failure_threshold >= 1), Open
\* implies that the failure counter has reached failure_threshold and that
\* last_failure_time is set, and Closed implies that the failure counter is
\* below failure_threshold.
C34_StateMatchesCounter ==
    \A b \in Breakers :
        /\ state[b] = "Open"
           => /\ failure_count[b] >= failure_threshold
              /\ last_failure_time[b] # NoTime
        /\ state[b] = "Closed" => failure_count[b] < failure_threshold

\* one breaker has reopened after a failed trial, with more failures counted
\* than the threshold, while another one is Closed and untouched
C34_Witness ==
    /\ failure_threshold >= 2
    /\ \E b \in Breakers :
        /\ state[b] = "Open"
        /\ failure_count[b] = failure_threshold + 1
        /\ last_failure_time[b] > 0
    /\ \E b \in Breakers : state[b] = "Closed" /\ failure_count[b] = 0

(***************************************************************************)
(* HalfOpen as seen between calls                                          *)
(***************************************************************************)

\* get_status and a later call read the state under the breaker's mutex:
\* they see HalfOpen when the breaker is HalfOpen and nobody holds it
SeenHalfOpen(b) ==
    state[b] = "HalfOpen" /\ lock[b] = Free

\* caller c's call through the breaker returns in this step, the upstream
\* having resolved to Ok or to Err
ReturnsNow(c) ==
    pc[c] = "inflight" /\ pc'[c] = "done"

NextRecover ==
    \/ Tick
    \/ \E b \in Exercised : BeginCall(OneCaller, b)
    \/ EnterCall(OneCaller)
    \/ CompleteOk(OneCaller)
    \/ CompleteErr(OneCaller)

SpecRecover ==
    /\ Init
    /\ [][NextRecover]_vars
    /\ WF_vars(EnterCall(OneCaller))
    /\ WF_vars(CompleteOk(OneCaller) \/ CompleteErr(OneCaller))

\* the client's call has reached breaker b, which is Open with its
\* recovery_timeout elapsed
CallsRecovered(b) ==
    /\ pc[OneCaller] = "waiting" /\ target[OneCaller] = b
    /\ state[b] = "Open"
    /\ ~OpenAndCooling(b)

\* C36: an Open breaker always has last_failure_time set; a call that
\* reaches it once recovery_timeout has elapsed is admitted to the upstream;
\* and such a call leads to the breaker being Closed unless the upstream
\* fails again.
C36_OpenRecovers ==
    /\ [](\A b \in Breakers : state[b] = "Open" => last_failure_time[b] # NoTime)
    /\ [][\A b \in Breakers :
            CallsRecovered(b) /\ Decides(OneCaller) => pc'[OneCaller] = "inflight"]_vars
    /\ \A b \in Breakers :
            CallsRecovered(b) ~> (state[b] = "Closed" \/ result[OneCaller] = "err")

\* the breaker had opened, its trial succeeded, and it is Closed again
C36_Witness ==
    /\ pc[OneCaller] = "done" /\ result[OneCaller] = "ok"
    /\ longRun[target[OneCaller]]
    /\ state[target[OneCaller]] = "Closed"
    /\ now >= recovery_timeout
    /\ last_failure_time[target[OneCaller]] = NoTime

(***************************************************************************)
(* The bucket of a RateLimiterService                                      *)
(***************************************************************************)

\* the requests the one limiter would let through now
Tokens ==
    Available(limiter, now, replenish, burst_size)

\* C32: a check returns at once with Ok or RateLimit: one that succeeds
\* takes exactly one request out of the bucket, one that fails finds the
\* bucket empty and leaves the limiter as it is; the number of requests the
\* limiter would let through is never below 0 nor above burst_size, however
\* long the limiter has been idle.
C32_OneTokenOrNothing ==
    /\ [](Tokens >= 0 /\ Tokens <= burst_size)
    /\ [][/\ rl_result' \in {"ok", "RateLimit"}
          /\ rl_result' = "ok"
             => Available(limiter', now, replenish, burst_size) = Tokens - 1
          /\ rl_result' = "RateLimit"
             => (limiter' = limiter /\ Tokens = 0)
         ]_<<limiter, oks, firstCheck, lastReject, okSince, rl_result>>

(***************************************************************************)
(* MonitoringService: the request counters behind self.metrics, a tokio    *)
(* RwLock.  record_successful_request and record_failed_request take the   *)
(* write guard, add one to total_requests and to their own counter, and    *)
(* drop the guard when they return; get_metrics clones the counters under  *)
(* a read guard.  An addition is a load and a store.                       *)
(***************************************************************************)

\* variant: a guard is granted whoever holds one
GrantedAlways(holders) ==
    TRUE

\* self.metrics.write().await and self.metrics.read().await return when no
\* writer holds the lock (the model's readers hold theirs for one step)
Granted(holders) ==
    holders = {}

\* the counter record_successful_request and record_failed_request add to
\* besides total_requests
FieldOf(kind) ==
    IF kind = "ok" THEN "successful_requests" ELSE "failed_requests"

\* a task calls record_successful_request ("ok") or record_failed_request
\* ("failed") and is suspended in self.metrics.write().await
BeginRecord(c, kind) ==
    /\ rpc[c] = "idle"
    /\ recorded + Cardinality({d \in Callers : rpc[d] # "idle"}) < MaxRecorded
    /\ rpc' = [rpc EXCEPT ![c] = "waiting"]
    /\ rkind' = [rkind EXCEPT ![c] = kind]
    /\ UNCHANGED <<metrics, metrics_lock, rtmp, recorded, seen>>
    /\ UNCHANGED <<cbVars, dispVars, histVars, rateVars, ttlVars, inputVars, voiceVars, readVars, writeVars, hookVars>>

\* the task obtains the write guard
LockMetrics(c) ==
    /\ rpc[c] = "waiting"
    /\ Granted(metrics_lock)
    /\ metrics_lock' = metrics_lock \cup {c}
    /\ rpc' = [rpc EXCEPT ![c] = "locked"]
    /\ UNCHANGED <<metrics, rkind, rtmp, recorded, seen>>
    /\ UNCHANGED <<cbVars, dispVars, histVars, rateVars, ttlVars, inputVars, voiceVars, readVars, writeVars, hookVars>>

\* metrics.total_requests += 1: the load
LoadTotal(c) ==
    /\ rpc[c] = "locked"
    /\ rtmp' = [rtmp EXCEPT ![c] = metrics.total_requests]
    /\ rpc' = [rpc EXCEPT ![c] = "loaded"]
    /\ UNCHANGED <<metrics, metrics_lock, rkind, recorded, seen>>
    /\ UNCHANGED <<cbVars, dispVars, histVars, rateVars, ttlVars, inputVars, voiceVars, readVars, writeVars, hookVars>>

\* metrics.total_requests += 1: the store
StoreTotal(c) ==
    /\ rpc[c] = "loaded"
    /\ metrics' = [metrics EXCEPT !.total_requests = rtmp[c] + 1]
    /\ rpc' = [rpc EXCEPT ![c] = "added"]
    /\ UNCHANGED <<metrics_lock, rkind, rtmp, recorded, seen>>
    /\ UNCHANGED <<cbVars, dispVars, histVars, rateVars, ttlVars, inputVars, voiceVars, readVars, writeVars, hookVars>>

\* metrics.successful_requests += 1 or metrics.failed_requests += 1: the load
LoadOwn(c) ==
    /\ rpc[c] = "added"
    /\ rtmp' = [rtmp EXCEPT ![c] = metrics[FieldOf(rkind[c])]]
    /\ rpc' = [rpc EXCEPT ![c] = "loadedOwn"]
    /\ UNCHANGED <<metrics, metrics_lock, rkind, recorded, seen>>
    /\ UNCHANGED <<cbVars, dispVars, histVars, rateVars, ttlVars, inputVars, voiceVars, readVars, writeVars, hookVars>>

\* the store of that addition; the rest of the function writes no counter
\* (check_error_rate_alert only logs), and the guard is dropped on return
StoreOwn(c) ==
    /\ rpc[c] = "loadedOwn"
    /\ metrics' = [metrics EXCEPT ![FieldOf(rkind[c])] = rtmp[c] + 1]
    /\ metrics_lock' = metrics_lock \ {c}
    /\ rpc' = [rpc EXCEPT ![c] = "idle"]
    /\ rkind' = [rkind EXCEPT ![c] = "none"]
    /\ recorded' = recorded + 1
    /\ UNCHANGED <<rtmp, seen>>
    /\ UNCHANGED <<cbVars, dispVars, histVars, rateVars, ttlVars, inputVars, voiceVars, readVars, writeVars, hookVars>>

\* get_metrics: the counters are cloned under a read guard
GetMetrics ==
    /\ Granted(metrics_lock)
    /\ seen' = metrics
    /\ UNCHANGED <<metrics, metrics_lock, rpc, rkind, rtmp, recorded>>
    /\ UNCHANGED <<cbVars, dispVars, histVars, rateVars, ttlVars, inputVars, voiceVars, readVars, writeVars, hookVars>>

NextMetrics ==
    \/ \E c \in Callers, kind \in {"ok", "failed"} : BeginRecord(c, kind)
    \/ \E c \in Callers : LockMetrics(c)
    \/ \E c \in Callers : LoadTotal(c)
    \/ \E c \in Callers : StoreTotal(c)
    \/ \E c \in Callers : LoadOwn(c)
    \/ \E c \in Callers : StoreOwn(c)
    \/ GetMetrics

SpecMetrics == InitProgram /\ [][NextMetrics]_vars

\* total_requests is the sum of the two other counters
Balanced(m) ==
    m.total_requests = m.successful_requests + m.failed_requests

\* C33: whatever the interleaving of concurrent record_successful_request
\* and record_failed_request calls, the counters get_metrics returns have
\* total_requests = successful_requests + failed_requests; whenever no call
\* is inside the guard the counters agree and total_requests is the number
\* of calls that have returned; and each call adds exactly one to
\* total_requests.
C33_CountersAgree ==
    /\ [](Balanced(seen))
    /\ [](metrics_lock = {}
          => Balanced(metrics) /\ metrics.total_requests = recorded)
    /\ [][\A c \in Callers :
            rpc[c] = "loaded" /\ rpc'[c] = "added"
            => metrics'.total_requests = metrics.total_requests + 1]_vars

\* two calls of each kind have returned while another call waits for the
\* guard, and get_metrics has returned their counts
C33_Witness ==
    /\ recorded >= 2
    /\ metrics_lock = {}
    /\ metrics.successful_requests >= 1
    /\ metrics.failed_requests >= 1
    /\ \E c \in Callers : rpc[c] = "waiting"
    /\ seen = metrics

(***************************************************************************)
(* Concurrent reads of one key: several tasks run get_user_savings for the *)
(* same user while the entry is invalidated and expires.  cache.get and    *)
(* cache.insert are single operations of the moka cache; the fetch between *)
(* them is a suspension point.                                             *)
(***************************************************************************)

\* the slot of savings_cache the tasks read
SavingsSlot == <<"savings", "k1">>

\* get_user_savings up to its first suspension in make_request: the cached
\* savings are returned if cache.get_savings finds a live entry
ReadSavings(c) ==
    LET v == Get(SavingsSlot[1], SavingsSlot[2], now)
    IN  /\ rd_pc[c] = "idle"
        /\ IF v # "none"
           THEN /\ rd_pc' = [rd_pc EXCEPT ![c] = "hit"]
                /\ rd_ret' = [rd_ret EXCEPT ![c] = v]
           ELSE /\ rd_pc' = [rd_pc EXCEPT ![c] = "fetching"]
                /\ UNCHANGED rd_ret
        /\ UNCHANGED <<rd_val, fetched>>
        /\ UNCHANGED <<cbVars, dispVars, histVars, rateVars, ttlVars, inputVars,
                       voiceVars, metricVars, writeVars, hookVars>>

\* make_request returns the savings the backend holds at that moment
FetchSavingsOk(c, v) ==
    /\ rd_pc[c] = "fetching"
    /\ rd_pc' = [rd_pc EXCEPT ![c] = "storing"]
    /\ rd_val' = [rd_val EXCEPT ![c] = v]
    /\ fetched' = fetched \cup {v}
    /\ UNCHANGED rd_ret
    /\ UNCHANGED <<cbVars, dispVars, histVars, rateVars, ttlVars, inputVars,
                   voiceVars, metricVars, writeVars, hookVars>>

\* make_request returns an error, which `?` hands to the caller
FetchSavingsErr(c) ==
    /\ rd_pc[c] = "fetching"
    /\ rd_pc' = [rd_pc EXCEPT ![c] = "failed"]
    /\ UNCHANGED <<rd_val, rd_ret, fetched>>
    /\ UNCHANGED <<cbVars, dispVars, histVars, rateVars, ttlVars, inputVars,
                   voiceVars, metricVars, writeVars, hookVars>>

\* cache.set_savings(user_id, savings.clone()) and Ok(savings)
StoreSavings(c) ==
    /\ rd_pc[c] = "storing"
    /\ entries' = [entries EXCEPT ![SavingsSlot] = Inserted(@, rd_val[c], now)]
    /\ lastSet' = [lastSet EXCEPT ![SavingsSlot] = SetHistory(@, rd_val[c], now)]
    /\ rd_pc' = [rd_pc EXCEPT ![c] = "stored"]
    /\ rd_ret' = [rd_ret EXCEPT ![c] = rd_val[c]]
    /\ UNCHANGED <<rd_val, fetched>>
    /\ UNCHANGED <<user_cache_ttl, btc_price_cache_ttl, savings_cache_ttl, used>>
    /\ UNCHANGED <<cbVars, dispVars, histVars, rateVars, inputVars, voiceVars,
                   metricVars, writeVars, hookVars>>

\* the task goes on with what get_user_savings returned
ReturnRead(c) ==
    /\ rd_pc[c] \in {"hit", "stored", "failed"}
    /\ rd_pc' = [rd_pc EXCEPT ![c] = "idle"]
    /\ rd_val' = [rd_val EXCEPT ![c] = "none"]
    /\ rd_ret' = [rd_ret EXCEPT ![c] = "none"]
    /\ UNCHANGED fetched
    /\ UNCHANGED <<cbVars, dispVars, histVars, rateVars, ttlVars, inputVars,
                   voiceVars, metricVars, writeVars, hookVars>>

NextShared ==
    \/ Tick
    \/ \E c \in Callers : ReadSavings(c)
    \/ \E c \in Callers, v \in CacheValues : FetchSavingsOk(c, v)
    \/ \E c \in Callers : FetchSavingsErr(c)
    \/ \E c \in Callers : StoreSavings(c)
    \/ \E c \in Callers : ReturnRead(c)
    \/ InvalidateEntry(SavingsSlot[1], SavingsSlot[2])

\* every savings_cache_ttl within the bounds; the tasks read and write the
\* one slot
InitShared ==
    /\ InitOneConfig
    /\ InitDispatch
    /\ InitLimitersWith({MaxBurst}, {MaxReplenish})
    /\ user_cache_ttl = MaxTtl
    /\ btc_price_cache_ttl = MaxTtl
    /\ savings_cache_ttl \in 1..MaxTtl
    /\ entries = [s \in Slots |-> NoEntry]
    /\ used = {SavingsSlot}
    /\ lastSet = [s \in Slots |-> NoSet]
    /\ InitNoInput

SpecShared == InitShared /\ [][NextShared]_vars

\* C31: whatever the interleaving of concurrent reads, sets and
\* invalidations of one key, the savings a read is served from the cache are
\* the value of the last completed set of that key, which no invalidation
\* has followed and whose time_to_live has not ended; and the key never
\* holds savings that no fetch returned.
C31_ReadsSeeLastSet ==
    /\ [](entries[SavingsSlot] # NoEntry => entries[SavingsSlot].val \in fetched)
    /\ [][\A c \in Callers :
            rd_pc[c] = "idle" /\ rd_pc'[c] = "hit"
            => /\ rd_ret'[c] = lastSet[SavingsSlot].val
               /\ rd_ret'[c] \in CacheValues
               /\ lastSet[SavingsSlot].at # NoTime
               /\ now - lastSet[SavingsSlot].at < savings_cache_ttl]_vars

\* a read was served the savings one task had stored, and a task that had
\* missed before that set has then stored other savings over them
C31_Witness ==
    \E c1, c2 \in Callers :
        /\ c1 # c2
        /\ rd_pc[c1] = "hit"
        /\ rd_pc[c2] = "stored"
        /\ rd_ret[c1] # rd_ret[c2]
        /\ lastSet[SavingsSlot].old # "none"
        /\ lastSet[SavingsSlot].old # lastSet[SavingsSlot].val

(***************************************************************************)
(* Commands that write to the backend                                      *)
(***************************************************************************)

\* the commands whose branch validates its arguments and then submits a
\* write (a deposit is submitted by create_mpesa_deposit)
WriteCommands == {"Deposit", "Withdraw", "Transfer", "ContributeChama"}

\* the requests that write to the backend: POST mpesa/stk-push, POST
\* transactions, POST chama-contributions
Writes == {"stk_push", "transaction", "withdrawal", "transfer", "contribution"}

\* handle_webhook spawns process_text_message for a message whose command
\* carries the arguments
ReceiveWrite(t, ph, cmd) ==
    Receive(t, ph, cmd, Shape(cmd, wargs))

NextWrites ==
    \/ \E t \in Tasks, ph \in Phones, cmd \in WriteCommands : ReceiveWrite(t, ph, cmd)
    \/ \E t \in Tasks : FetchOk(t)
    \/ \E t \in Tasks : FetchErr(t)
    \/ \E t \in Tasks : SendOk(t)
    \/ \E t \in Tasks : SendErr(t)
    \/ \E k \in Phones : Expire("user", k)

\* the program with every combination of arguments
InitWrites ==
    /\ InitOneConfig
    /\ InitDispatch
    /\ InitLimitersWith({MaxBurst}, {MaxReplenish})
    /\ InitCachesWith({MaxTtl}, {{}})
    /\ InitSideWith(Arguments)
    /\ InitNoText

SpecWrites == InitWrites /\ [][NextWrites]_vars

\* task t has sent a write to the backend and waits for the answer
Submitted(t) ==
    dpc[t] = "pending" /\ OpsOf(dcmd[t])[dstep[t]] \in Writes

\* the checks of the command's branch all return Ok
Validated(cmd, a) ==
    /\ ValidateAmount(a.amount)
    /\ ValidateCurrency(a.currency)
    /\ cmd = "Transfer" => ValidatePhoneNumber(a.recipient)

\* C37: for Deposit, Withdraw, Transfer and ContributeChama a write is
\* submitted to the backend only if validate_amount and validate_currency
\* and, for Transfer, validate_phone_number of the recipient have returned
\* Ok; a command that fails one of them sends the backend nothing once the
\* registered-user lookup, which precedes parsing, is over.
C37_WritesAreValidated ==
    \A t \in Tasks :
        /\ Submitted(t) => Validated(dcmd[t], wargs)
        /\ (dcmd[t] \in WriteCommands /\ ~Validated(dcmd[t], wargs))
           => (dpc[t] = "pending" => dstep[t] = 1)

\* the write of a transfer with valid arguments has been submitted
C37_Witness ==
    \E t \in Tasks :
        /\ dcmd[t] = "Transfer"
        /\ Submitted(t)
        /\ ValidatePhoneNumber(wargs.recipient)

(***************************************************************************)
(* The registered-user lookup at the head of process_text_message          *)
(***************************************************************************)

\* commands that reply at once, one that reads and one that writes
LookupCommands == {"Help", "Unknown", "Savings", "Withdraw"}

NextLookup ==
    \/ \E t \in Tasks, ph \in Phones, cmd \in LookupCommands :
          \E v \in Variants(cmd) : Receive(t, ph, cmd, v)
    \/ \E t \in Tasks : FetchOk(t)
    \/ \E t \in Tasks : FetchErr(t)
    \/ \E t \in Tasks : SendOk(t)
    \/ \E t \in Tasks : SendErr(t)
    \/ \E op \in {"user", "savings"}, k \in Phones : Expire(op, k)

\* the program with the failures of the backend counted
InitLookup ==
    /\ InitOneConfig
    /\ InitTasks
    /\ watched = "bitsacco"
    /\ hist = NoHist
    /\ admitted = NoTime
    /\ InitOneExt

SpecLookup == InitLookup /\ [][NextLookup]_vars

\* the request of validate_registered_user, for which task t was waiting,
\* is answered in this step
LeavesLookup(t) ==
    /\ dpc[t] = "pending" /\ dstep[t] = 1
    /\ dpc'[t] # "pending" \/ dstep'[t] # 1

NextDeposit ==
    \/ \E t \in Tasks, ph \in Phones : ReceiveWrite(t, ph, "Deposit")
    \/ \E t \in Tasks : FetchOk(t)
    \/ \E t \in Tasks : FetchErr(t)
    \/ \E t \in Tasks : SendOk(t)
    \/ \E t \in Tasks : SendErr(t)
    \/ \E k \in Phones : Expire("user", k)

\* the user's words are the amount and the currency of the deposit
InitDeposit ==
    /\ InitOneConfig
    /\ InitTasks
    /\ watched = "bitsacco"
    /\ hist = NoHist
    /\ admitted = NoTime
    /\ InitLimitersWith({MaxBurst}, {MaxReplenish})
    /\ InitCachesWith({MaxTtl}, {{}})
    /\ InitSideWith(Arguments)
    /\ InitNoText

SpecDeposit == InitDeposit /\ [][NextDeposit]_vars

\* task t waits for the answer to request op of its deposit
Awaits(t, op) ==
    dcmd[t] = "Deposit" /\ dpc[t] = "pending" /\ OpsOf("Deposit")[dstep[t]] = op

\* the request task t was waiting for is answered in this step
Answered(t) ==
    dpc[t] = "pending" /\ <<dpc[t], dstep[t]>> # <<dpc'[t], dstep'[t]>>

\* C39: create_mpesa_deposit looks the user up by id, then sends the STK
\* push, then creates the transaction record, each request only in the step
\* in which the one before it succeeded; a request that fails ends the
\* function with the error.  When the record creation fails the STK push
\* has been sent: the task sends the error reply and returns, and no
\* request goes to the backend any more.
C39_DepositInOrder ==
    /\ [][\A t \in Tasks :
            /\ Awaits(t, "stk_push")' /\ ~Awaits(t, "stk_push")
               => Awaits(t, "user_by_id") /\ obsFails' = 0
            /\ Awaits(t, "transaction")' /\ ~Awaits(t, "transaction")
               => Awaits(t, "stk_push") /\ obsFails' = 0
            /\ (Answered(t) /\ obsFails' = obsFails + 1
                /\ \E op \in {"user_by_id", "stk_push", "transaction"} : Awaits(t, op))
               => /\ dpc'[t] = "sending"
                  /\ dreply'[t] = "error"
            /\ (Answered(t) /\ Awaits(t, "transaction") /\ obsFails' = 0)
               => /\ dpc'[t] = "sending"
                  /\ dreply'[t] = "result"
            /\ dpc[t] = "sending" => dpc'[t] \in {"sending", "idle"}]_vars
    /\ [](\A t \in Tasks :
            (\E op \in {"user_by_id", "stk_push", "transaction"} : Awaits(t, op))
            => dvariant[t] = "ok")

\* the STK push of a deposit succeeded, the creation of its record failed,
\* and the task is sending the error reply
C39_Witness ==
    \E t \in Tasks :
        /\ dcmd[t] = "Deposit"
        /\ dpc[t] = "sending" /\ dreply[t] = "error"
        /\ OpsOf("Deposit")[dstep[t]] = "transaction"
        /\ obsFails = 1

(***************************************************************************)
(* handle_webhook: one POST to /webhook                                    *)
(***************************************************************************)

\* longest message validate_message accepts, in bytes
MaxMessageLen == 4096

\* a message without text
NoBody == [length |-> 0 - 1, dangerous |-> FALSE]

\* a text of so many bytes, with or without one of the dangerous patterns
Body(length, dangerous) == [length |-> length, dangerous |-> dangerous]

\* validate_message
ValidateMessage(b) ==
    /\ b.length # 0
    /\ b.length <= MaxMessageLen
    /\ ~b.dangerous

\* a WhatsAppMessage: its sender and its optional text, voice and audio
Message(from, text, voice, audio) ==
    [from |-> from, text |-> text, voice |-> voice, audio |-> audio]

Sender == PhoneNumber(TRUE, 2, 12)

Messages ==
    { Message(Sender, Body(5, FALSE), FALSE, FALSE),
      Message(Sender, Body(5, TRUE), FALSE, FALSE),
      Message(Sender, Body(MaxMessageLen + 1, FALSE), FALSE, FALSE),
      Message(PhoneNumber(FALSE, 2, 12), Body(5, FALSE), FALSE, FALSE),
      Message(Sender, NoBody, TRUE, FALSE),
      Message(Sender, NoBody, FALSE, TRUE),
      Message(Sender, NoBody, FALSE, FALSE) }

\* the messages of a payload, in the order the three loops visit them
Batches(n) ==
    UNION {[1..len -> Messages] : len \in 0..n}

\* the hub.* query parameters: not all three present, or present with the
\* right mode and token, or present with a wrong one
Hubs == {"none", "valid", "invalid"}

\* the x-hub-signature-256 header: absent, not a string, not the HMAC of
\* the payload, or the HMAC of the payload
Signatures == {"missing", "unreadable", "wrong", "good"}

\* a request: its query, its signature header, whether its body is a
\* WhatsAppWebhook, and the messages of that body
Requests(n) ==
    [hub : Hubs, signature : Signatures, webhook : BOOLEAN,
     batch : {<< >>, <<Message(Sender, Body(5, FALSE), FALSE, FALSE)>>}]
    \cup [hub : {"none"}, signature : {"good"}, webhook : {TRUE}, batch : Batches(n)]

\* what handle_webhook returns before its loop, or "none" if it enters it
BeforeLoop(req) ==
    IF ~WebhookAdmits THEN "RateLimit"
    ELSE IF req.hub = "valid" THEN "challenge"
    ELSE IF req.hub = "invalid" THEN "Unauthorized"
    ELSE IF req.signature \in {"missing", "unreadable"} THEN "Validation"
    ELSE IF req.signature = "wrong" THEN "Unauthorized"
    ELSE IF ~req.webhook THEN "Validation"
    ELSE "none"

\* the task the loop spawns for message m, "none" if it spawns no task,
\* "Validation" if one of the two `?` returns
ForMessage(m) ==
    IF ~ValidatePhoneNumber(m.from) THEN "Validation"
    ELSE IF m.text # NoBody
         THEN IF ValidateMessage(m.text) THEN "text" ELSE "Validation"
    ELSE IF m.voice THEN "voice"
    ELSE IF m.audio THEN "audio"
    ELSE "none"

AllRunning == running["text"] + running["voice"] + running["audio"]

\* variant: a message that fails validation is skipped
RejectedSkips(pos) ==
    [hpc |-> "loop", hpos |-> pos + 1, hret |-> "none"]

\* where handle_webhook is after a `?` of its loop returned at message pos
Rejected(pos) ==
    [hpc |-> "idle", hpos |-> pos, hret |-> "Validation"]

\* a request reaches handle_webhook, which runs up to its loop
Arrive(req) ==
    /\ hpc = "idle"
    /\ AllRunning + Len(req.batch) <= MaxBatch
    /\ hreq' = req
    /\ hret' = BeforeLoop(req)
    /\ hpc' = IF BeforeLoop(req) = "none" THEN "loop" ELSE "idle"
    /\ hpos' = IF BeforeLoop(req) = "none" THEN 1 ELSE 0
    /\ UNCHANGED <<cbVars, dispVars, histVars, rateVars, ttlVars, inputVars, voiceVars,
                   metricVars, readVars, writeVars, running>>

\* one turn of the loop over the messages, or the return after the last
HandleMessage ==
    /\ hpc = "loop"
    /\ IF hpos > Len(hreq.batch)
       THEN /\ hpc' = "idle"
            /\ hret' = "OK"
            /\ UNCHANGED <<hpos, running>>
       ELSE LET todo == ForMessage(hreq.batch[hpos])
            IN  IF todo = "Validation"
                THEN /\ hpc' = Rejected(hpos).hpc
                     /\ hpos' = Rejected(hpos).hpos
                     /\ hret' = Rejected(hpos).hret
                     /\ UNCHANGED running
                ELSE /\ hpos' = hpos + 1
                     /\ running' = IF todo = "none" THEN running
                                   ELSE [running EXCEPT ![todo] = @ + 1]
                     /\ UNCHANGED <<hpc, hret>>
    /\ UNCHANGED <<cbVars, dispVars, histVars, rateVars, ttlVars, inputVars, voiceVars,
                   metricVars, readVars, writeVars, hreq>>

\* a spawned task ends
TaskEnds(k) ==
    /\ running[k] > 0
    /\ running' = [running EXCEPT ![k] = @ - 1]
    /\ UNCHANGED <<cbVars, dispVars, histVars, rateVars, ttlVars, inputVars, voiceVars,
                   metricVars, readVars, writeVars, hpc, hreq, hpos, hret>>

NextHook ==
    \/ \E req \in Requests(MaxBatch) : Arrive(req)
    \/ HandleMessage
    \/ \E k \in TaskKinds : TaskEnds(k)
    \/ Tick

SpecHook == InitProgram /\ [][NextHook]_vars

\* the message the loop is at fails validate_phone_number or validate_message
AtInvalid ==
    /\ hpc = "loop"
    /\ hpos <= Len(hreq.batch)
    /\ ForMessage(hreq.batch[hpos]) = "Validation"

\* a task is spawned in this step
Spawns == \E k \in TaskKinds : running'[k] > running[k]

\* handle_webhook moves in this step
HandlerMoves == <<hpc, hreq, hpos, hret>>' # <<hpc, hreq, hpos, hret>>

\* no task is spawned unless the rate-limit check passed and the signature
\* was verified; at a message that fails validation the handler returns
\* the validation error without spawning a task for it or for a later one,
\* and no step of the handler ends a task that was spawned
SpawnsAndStops ==
    /\ [](hpc = "loop" => hreq.signature = "good" /\ WebhookAdmits)
    /\ [][/\ Spawns => hpc = "loop"
          /\ (AtInvalid /\ HandlerMoves) => /\ hpc' = "idle"
                                            /\ hret' = "Validation"
                                            /\ hpos' = hpos
          /\ AtInvalid => ~Spawns
          /\ HandlerMoves => \A k \in TaskKinds : running'[k] >= running[k]]_vars

====
